---- MODULE Spec2Model ----
(***************************************************************************)
(* Viterbi lattice (sudachi/src/analysis/lattice.rs) and reading-candidate *)
(* enumerator (sudachi/src/analysis/reading_candidates/mod.rs).            *)
(*                                                                         *)
(* Boundaries, NodeIdx.end and NodeIdx.index are 0-based as in the source; *)
(* TLA+ sequences are 1-based, so boundary b lives at position b + 1 of    *)
(* the outer arrays and entry k of an inner array at position k + 1.       *)
(***************************************************************************)
EXTENDS Integers, Sequences, FiniteSets, TLC

VARIABLES
    lattice,    \* the Lattice struct: ends, ends_full, indices, eos, size, global_whitespace_bridge
    conn,       \* the ConnectionMatrix handed to every call (read-only input)
    result,     \* the Vec<NodeIdx> handed to the last call, when it was fill_top_path
    ret,        \* the last call and what it returned
    inserted,   \* history: the nodes handed to insert since the last reset, in call order
    reset_length, \* history: the length handed to the last reset, -1 before the first
    input,      \* the InputBuffer's text, a sequence of codepoints
    query,      \* the arguments of the last enumerate_reading_candidates call
    candidates, \* the Vec<ReadingCandidatePath> it returned
    original,   \* the text the InputBuffer was built from, before rewriting
    lookups,    \* history: the lexicon lookups the last enumerate call made
    py_input,   \* the WordId and the WordInfo handed to PyWordInfo::from_word_info
    py_word_info \* the PyWordInfo it built, <<>> before the call

vars ==
    <<lattice, conn, result, ret, inserted, reset_length, input, query, candidates, original,
      lookups, py_input, py_word_info>>

(***************************************************************************)
(* Bounds of the model.                                                    *)
(***************************************************************************)
MaxLen == 2         \* longest sentence, in codepoints
MaxNodes == 3       \* insert calls per analysis

(***************************************************************************)
(* Program constants.                                                      *)
(***************************************************************************)
I32Max == 2147483647        \* i32::MAX, the "unreachable" cost
NONE_RIGHT_ID == 65535      \* VNode::NONE_RIGHT_ID = u16::MAX
U16Max == 65535             \* u16::MAX, both fields of NodeIdx::empty()
NATIVE_OOV_DIC_ID == 15     \* the dic field of an OOV word id

\* WordId: the dic field (4 bits) and the word field (28 bits).
WordId_new(dic, word) == [dic |-> dic, word |-> word]

\* WordId::EOS, a reserved id that no node handed to insert carries.
WordId_EOS == WordId_new(-1, -1)

is_oov(word_id) == word_id.dic = NATIVE_OOV_DIC_ID

(***************************************************************************)
(* Inputs: connection ids, connection matrices and candidate nodes.        *)
(***************************************************************************)
Ids == 0..3

\* ConnectionMatrix::cost(left, right): the matrix is a table cm[left][right].
conn_cost(cm, left, right) == cm[left][right]

ConnZero == [l \in Ids |-> [r \in Ids |-> 0]]

\* The normal transition out of whitespace into EOS (3 -> 0) is dear, and the
\* context before the whitespace prefers right_id 2 (as in the lattice.rs tests).
ConnBridge ==
    [l \in Ids |-> [r \in Ids |->
        CASE l = 3 /\ r = 0 -> 5
          [] l = 1 /\ r = 0 -> 4
          [] OTHER -> 0]]

\* Negative connection costs; the bridged transition (carrier 1) is dearer
\* than the normal one out of whitespace.
ConnNeg ==
    [l \in Ids |-> [r \in Ids |->
        CASE l = 2 /\ r = 0 -> -3
          [] l = 3 /\ r = 2 -> -2
          [] l = 1 -> 2
          [] OTHER -> 0]]

ConnSet == {ConnZero, ConnBridge, ConnNeg}

\* Node::new(begin, end, left_id, right_id, cost, word_id) followed by
\* set_whitespace(flag), as make_node of the lattice.rs tests builds nodes.
make_node(begin, end, left_id, right_id, cost, word_id, is_whitespace) ==
    [begin |-> begin, end |-> end, left_id |-> left_id, right_id |-> right_id,
     cost |-> cost, word_id |-> word_id, is_whitespace |-> is_whitespace]

\* The candidate words: two content words and one whitespace word.
Kinds ==
    { [left_id |-> 1, right_id |-> 1, cost |-> 0, word_id |-> WordId_new(0, 1),
       is_whitespace |-> FALSE],
      [left_id |-> 2, right_id |-> 2, cost |-> 1, word_id |-> WordId_new(0, 2),
       is_whitespace |-> FALSE],
      [left_id |-> 1, right_id |-> 3, cost |-> 0, word_id |-> WordId_new(0, 3),
       is_whitespace |-> TRUE] }

\* The candidate nodes of a sentence of n codepoints: every content word on
\* every span begin < end <= n, the whitespace word on every single codepoint.
Pool(n) ==
    { nd \in { make_node(s[1], s[2], k.left_id, k.right_id, k.cost, k.word_id,
                         k.is_whitespace) :
                 s \in { t \in (0..n) \X (0..n) : t[1] < t[2] }, k \in Kinds } :
        nd.is_whitespace => nd.end = nd.begin + 1 }

(***************************************************************************)
(* VNode, NodeIdx.                                                         *)
(***************************************************************************)
VNode_new(right_id, total_cost, prev_non_ws_right_id) ==
    [total_cost |-> total_cost, right_id |-> right_id,
     prev_non_ws_right_id |-> prev_non_ws_right_id]

NodeIdx_new(end, index) == [end |-> end, index |-> index]

NodeIdx_empty == NodeIdx_new(U16Max, U16Max)

is_connected_to_bos(vnode) == vnode.total_cost < I32Max

(***************************************************************************)
(* Lattice.                                                                *)
(***************************************************************************)
NoEos == [some |-> FALSE, idx |-> NodeIdx_empty, cost |-> 0]

SomeEos(idx, cost) == [some |-> TRUE, idx |-> idx, cost |-> cost]

\* #[derive(Default)]
Lattice_default ==
    [ends |-> <<>>, ends_full |-> <<>>, indices |-> <<>>,
     eos |-> NoEos, size |-> 0, global_whitespace_bridge |-> FALSE]

set_global_whitespace_bridge(L, enabled) ==
    [lat |-> [L EXCEPT !.global_whitespace_bridge = enabled],
     previous |-> L.global_whitespace_bridge]

boundary_count(L) == L.size

nodes_ending_at(L, boundary) ==
    IF boundary + 1 \in DOMAIN L.ends_full THEN L.ends_full[boundary + 1] ELSE <<>>

has_previous_node(L, i) ==
    IF i + 1 \in DOMAIN L.ends THEN L.ends[i + 1] # <<>> ELSE FALSE

\* Mutant of reset_vec: only the inner vectors of the new sentence are cleared.
reset_vec_clears_prefix(data, target) ==
    [i \in 1..(IF Len(data) <= target THEN target ELSE Len(data)) |->
        IF i <= target \/ i > Len(data) THEN <<>> ELSE data[i]]

\* Every inner vector is cleared; the outer vector grows to target and never shrinks.
reset_vec(data, target) ==
    [i \in 1..(IF Len(data) <= target THEN target ELSE Len(data)) |-> <<>>]

connect_bos(L) ==
    [L EXCEPT !.ends[1] = Append(@, VNode_new(0, 0, NONE_RIGHT_ID))]

\* Mutant of reset: the eos of the analysis before is kept.
reset_keeps_eos(L, length) ==
    connect_bos([L EXCEPT !.ends = reset_vec(L.ends, length + 1),
                          !.ends_full = reset_vec(L.ends_full, length + 1),
                          !.indices = reset_vec(L.indices, length + 1),
                          !.size = length + 1])

reset(L, length) ==
    connect_bos([L EXCEPT !.ends = reset_vec(L.ends, length + 1),
                          !.ends_full = reset_vec(L.ends_full, length + 1),
                          !.indices = reset_vec(L.indices, length + 1),
                          !.eos = NoEos,
                          !.size = length + 1])

\* Mutant of best_cost_for_pred: the bridged cost replaces the normal one
\* without being compared with it.
best_cost_always_bridged(L, l_vnode, l_node_is_whitespace, r_node, cm) ==
    IF /\ L.global_whitespace_bridge
       /\ l_node_is_whitespace
       /\ ~r_node.is_whitespace
       /\ l_vnode.prev_non_ws_right_id # NONE_RIGHT_ID
    THEN l_vnode.total_cost
         + conn_cost(cm, l_vnode.prev_non_ws_right_id, r_node.left_id) + r_node.cost
    ELSE l_vnode.total_cost + conn_cost(cm, l_vnode.right_id, r_node.left_id) + r_node.cost

\* Mutant of best_cost_for_pred: the policy flag is read inverted.
best_cost_flag_inverted(L, l_vnode, l_node_is_whitespace, r_node, cm) ==
    LET normal_cost ==
            l_vnode.total_cost + conn_cost(cm, l_vnode.right_id, r_node.left_id) + r_node.cost
    IN  IF /\ ~L.global_whitespace_bridge
           /\ l_node_is_whitespace
           /\ ~r_node.is_whitespace
           /\ l_vnode.prev_non_ws_right_id # NONE_RIGHT_ID
        THEN LET bridged_cost ==
                     l_vnode.total_cost
                     + conn_cost(cm, l_vnode.prev_non_ws_right_id, r_node.left_id)
                     + r_node.cost
             IN  IF bridged_cost < normal_cost THEN bridged_cost ELSE normal_cost
        ELSE normal_cost

\* Lines 181-196 of connect_node: the cost of reaching r_node through l_vnode.
best_cost_for_pred(L, l_vnode, l_node_is_whitespace, r_node, cm) ==
    LET node_cost == r_node.cost
        normal_cost ==
            l_vnode.total_cost + conn_cost(cm, l_vnode.right_id, r_node.left_id) + node_cost
    IN  IF /\ L.global_whitespace_bridge
           /\ l_node_is_whitespace
           /\ ~r_node.is_whitespace
           /\ l_vnode.prev_non_ws_right_id # NONE_RIGHT_ID
        THEN LET bridged_cost ==
                     l_vnode.total_cost
                     + conn_cost(cm, l_vnode.prev_non_ws_right_id, r_node.left_id)
                     + node_cost
             IN  IF bridged_cost < normal_cost THEN bridged_cost ELSE normal_cost
        ELSE normal_cost

\* Mutant of carrier_for: a whitespace node drops the carrier.
carrier_for_drops_on_whitespace(r_node, l_vnode) ==
    IF r_node.is_whitespace THEN NONE_RIGHT_ID ELSE r_node.right_id

\* Lines 201-205 of connect_node: the carrier handed to r_node.
carrier_for(r_node, l_vnode) ==
    IF r_node.is_whitespace THEN l_vnode.prev_non_ws_right_id ELSE r_node.right_id

\* Mutant of improves: the first connected predecessor is kept.
improves_first_only(best_cost, min_cost) == min_cost = I32Max

\* Mutant of improves: a connected predecessor replaces the current best
\* when it is dearer.
improves_when_dearer(best_cost, min_cost) == min_cost = I32Max \/ best_cost > min_cost

\* Mutant of improves: a predecessor of equal cost replaces the current best.
improves_or_ties(best_cost, min_cost) == best_cost <= min_cost /\ best_cost < I32Max

\* Line 198: a predecessor replaces the current best only when strictly cheaper.
improves(best_cost, min_cost) == best_cost < min_cost

\* The loop of connect_node from predecessor i on; acc is
\* (prev_idx, min_cost, prev_non_ws_right_id) so far.
RECURSIVE connect_loop(_, _, _, _, _)
connect_loop(L, r_node, cm, i, acc) ==
    LET begin == r_node.begin
        preds == L.ends[begin + 1]
    IN  IF i >= Len(preds) THEN acc
        ELSE LET l_vnode == preds[i + 1]
             IN  IF ~is_connected_to_bos(l_vnode)
                 THEN connect_loop(L, r_node, cm, i + 1, acc)
                 ELSE LET l_node_is_whitespace ==
                              IF begin = 0 THEN FALSE
                              ELSE L.ends_full[begin + 1][i + 1].is_whitespace
                          best == best_cost_for_pred(L, l_vnode, l_node_is_whitespace,
                                                     r_node, cm)
                      IN  IF improves(best, acc.min_cost)
                          THEN connect_loop(L, r_node, cm, i + 1,
                                   [prev_idx |-> NodeIdx_new(begin, i),
                                    min_cost |-> best,
                                    prev_non_ws_right_id |-> carrier_for(r_node, l_vnode)])
                          ELSE connect_loop(L, r_node, cm, i + 1, acc)

connect_node(L, r_node, cm) ==
    connect_loop(L, r_node, cm, 0,
                 [prev_idx |-> NodeIdx_empty, min_cost |-> I32Max,
                  prev_non_ws_right_id |-> NONE_RIGHT_ID])

\* Mutant of insert: a node that no predecessor connects is not stored.
insert_drops_unreachable(L, node, cm) ==
    LET c == connect_node(L, node, cm)
        end_idx == node.end
    IN  IF c.min_cost = I32Max THEN [lat |-> L, cost |-> c.min_cost]
        ELSE
        [lat |-> [L EXCEPT
                    !.ends[end_idx + 1] =
                        Append(@, VNode_new(node.right_id, c.min_cost, c.prev_non_ws_right_id)),
                    !.indices[end_idx + 1] = Append(@, c.prev_idx),
                    !.ends_full[end_idx + 1] = Append(@, node)],
         cost |-> c.min_cost]

\* Mutant of insert: the stored eos is dropped.
insert_unsets_eos(L, node, cm) ==
    LET c == connect_node(L, node, cm)
        end_idx == node.end
    IN  [lat |-> [L EXCEPT
                    !.ends[end_idx + 1] =
                        Append(@, VNode_new(node.right_id, c.min_cost, c.prev_non_ws_right_id)),
                    !.indices[end_idx + 1] = Append(@, c.prev_idx),
                    !.ends_full[end_idx + 1] = Append(@, node),
                    !.eos = NoEos],
         cost |-> c.min_cost]

insert(L, node, cm) ==
    LET c == connect_node(L, node, cm)
        end_idx == node.end
    IN  [lat |-> [L EXCEPT
                    !.ends[end_idx + 1] =
                        Append(@, VNode_new(node.right_id, c.min_cost, c.prev_non_ws_right_id)),
                    !.indices[end_idx + 1] = Append(@, c.prev_idx),
                    !.ends_full[end_idx + 1] = Append(@, node)],
         cost |-> c.min_cost]

\* Mutant of eos_node: the node is placed one boundary early.
eos_node_one_early(L) ==
    LET len == L.size
        at == IF len >= 2 THEN len - 2 ELSE 0
    IN  make_node(at, at, 0, 0, 0, WordId_EOS, FALSE)

\* The synthetic node connect_eos builds: Node::new(len - 1, len - 1, 0, 0, 0, WordId::EOS).
eos_node(L) ==
    LET len == L.size
        eos_start == len - 1
        eos_end == len - 1
    IN  make_node(eos_start, eos_end, 0, 0, 0, WordId_EOS, FALSE)

\* Mutant of connect_eos: the result is stored before the cost is tested.
connect_eos_stores_first(L, cm) ==
    LET c == connect_node(L, eos_node(L), cm)
    IN  [lat |-> [L EXCEPT !.eos = SomeEos(c.prev_idx, c.min_cost)],
         ok |-> c.min_cost # I32Max]

connect_eos(L, cm) ==
    LET c == connect_node(L, eos_node(L), cm)
    IN  IF c.min_cost = I32Max
        THEN [lat |-> L, ok |-> FALSE]
        ELSE [lat |-> [L EXCEPT !.eos = SomeEos(c.prev_idx, c.min_cost)], ok |-> TRUE]

node(L, id) ==
    [node |-> L.ends_full[id.end + 1][id.index + 1],
     cost |-> L.ends[id.end + 1][id.index + 1].total_cost]

\* Mutant of fill_loop: the predecessor is pushed before it is tested for BOS.
RECURSIVE fill_loop_pushes_bos(_, _, _)
fill_loop_pushes_bos(L, idx, out) ==
    IF ~(/\ idx.end + 1 \in DOMAIN L.indices
         /\ idx.index + 1 \in DOMAIN L.indices[idx.end + 1])
    THEN [result |-> out, panic |-> TRUE]
    ELSE LET prev_idx == L.indices[idx.end + 1][idx.index + 1]
         IN  IF prev_idx.end # 0
             THEN fill_loop_pushes_bos(L, prev_idx, Append(out, prev_idx))
             ELSE [result |-> Append(out, prev_idx), panic |-> FALSE]

\* The loop of fill_top_path. Reading indices[idx.end][idx.index] outside the
\* array panics: the vector keeps what was pushed before.
RECURSIVE fill_loop(_, _, _)
fill_loop(L, idx, out) ==
    IF ~(/\ idx.end + 1 \in DOMAIN L.indices
         /\ idx.index + 1 \in DOMAIN L.indices[idx.end + 1])
    THEN [result |-> out, panic |-> TRUE]
    ELSE LET prev_idx == L.indices[idx.end + 1][idx.index + 1]
         IN  IF prev_idx.end # 0
             THEN fill_loop(L, prev_idx, Append(out, prev_idx))
             ELSE [result |-> out, panic |-> FALSE]

fill_top_path(L, out) ==
    IF ~L.eos.some
    THEN [result |-> out, panic |-> FALSE]
    ELSE fill_loop(L, L.eos.idx, Append(out, L.eos.idx))

(***************************************************************************)
(* The state machine: one action per public operation of Lattice.          *)
(***************************************************************************)
\* op: the call; val: its return value (insert: the cost; connect_eos: 1 for
\* Ok, 0 for Err(EosBosDisconnect); set_global_whitespace_bridge: the previous
\* flag as 0/1; reset: the length; fill_top_path: the length of the vector
\* handed in; enumerate_reading_candidates: 1 for Ok, 0 for Err); panic: the
\* call panicked.
Ret(op, val, panic) == [op |-> op, val |-> val, panic |-> panic]

\* The vectors a caller hands to fill_top_path: empty, or holding an element.
PreVectors == {<<>>, <<NodeIdx_empty>>}

\* No enumerate_reading_candidates call yet.
NoQuery == [called |-> FALSE, reading |-> <<>>, max_results |-> 0, min_tokens |-> 0]

Init ==
    /\ lattice = Lattice_default
    /\ conn \in ConnSet
    /\ result = <<>>
    /\ ret = Ret("default", 0, FALSE)
    /\ inserted = <<>>
    /\ reset_length = -1
    /\ input = <<>>
    /\ query = NoQuery
    /\ candidates = <<>>
    /\ original = <<>>
    /\ lookups = 0
    /\ py_input = <<>>
    /\ py_word_info = <<>>

\* The tokenizer sets the policy between sentences, before the first insert.
SetGlobalWhitespaceBridge ==
    /\ inserted = <<>>
    /\ \E enabled \in BOOLEAN :
        LET r == set_global_whitespace_bridge(lattice, enabled)
        IN  /\ lattice' = r.lat
            /\ ret' = Ret("set_global_whitespace_bridge", IF r.previous THEN 1 ELSE 0, FALSE)
            /\ result' = <<>>
            /\ UNCHANGED <<conn, py_input, py_word_info, inserted, reset_length, input, query, candidates, original, lookups>>

Reset ==
    \E n \in 0..MaxLen :
        /\ lattice' = reset(lattice, n)
        /\ ret' = Ret("reset", n, FALSE)
        /\ inserted' = <<>>
        /\ reset_length' = n
        /\ result' = <<>>
        /\ UNCHANGED <<conn, py_input, py_word_info, input, query, candidates, original, lookups>>

\* insert indexes ends[begin] and ends[end]: callers pass nodes of the current
\* sentence (begin < end <= size - 1) and, by the assumption stated above
\* insert ("lattice for all previous boundaries is already constructed"), in
\* non-decreasing order of end.
Insert ==
    /\ lattice.size >= 1
    /\ Len(inserted) < MaxNodes
    /\ \E nd \in Pool(lattice.size - 1) :
        LET r == insert(lattice, nd, conn)
        IN  /\ inserted # <<>> => inserted[Len(inserted)].end <= nd.end
            /\ lattice' = r.lat
            /\ ret' = Ret("insert", r.cost, FALSE)
            /\ inserted' = Append(inserted, nd)
            /\ result' = <<>>
            /\ UNCHANGED <<conn, py_input, py_word_info, reset_length, input, query, candidates, original, lookups>>

\* connect_eos computes size - 1 in usize: it is called after a reset.
ConnectEos ==
    /\ lattice.size >= 1
    /\ LET r == connect_eos(lattice, conn)
       IN  /\ lattice' = r.lat
           /\ ret' = Ret("connect_eos", IF r.ok THEN 1 ELSE 0, FALSE)
           /\ result' = <<>>
           /\ UNCHANGED <<conn, py_input, py_word_info, inserted, reset_length, input, query, candidates, original, lookups>>

FillTopPath ==
    \E pre \in PreVectors :
        LET r == fill_top_path(lattice, pre)
        IN  /\ result' = r.result
            /\ ret' = Ret("fill_top_path", Len(pre), r.panic)
            /\ UNCHANGED <<lattice, conn, py_input, py_word_info, inserted, reset_length, input, query, candidates, original, lookups>>

Next ==
    \/ SetGlobalWhitespaceBridge
    \/ Reset
    \/ Insert
    \/ ConnectEos
    \/ FillTopPath

Spec == Init /\ [][Next]_vars

(***************************************************************************)
(* Reading-candidate enumerator: normalization.  A string is a sequence of *)
(* codepoints; as_bytes gives its UTF-8 encoding, on which the search      *)
(* matches.                                                                *)
(***************************************************************************)
utf8(code) ==
    IF code < 128 THEN <<code>>
    ELSE IF code < 2048 THEN <<192 + (code \div 64), 128 + (code % 64)>>
    ELSE IF code < 65536
        THEN <<224 + (code \div 4096), 128 + ((code \div 64) % 64), 128 + (code % 64)>>
    ELSE <<240 + (code \div 262144), 128 + ((code \div 4096) % 64),
           128 + ((code \div 64) % 64), 128 + (code % 64)>>

RECURSIVE as_bytes(_)
as_bytes(text) ==
    IF text = <<>> THEN <<>> ELSE utf8(Head(text)) \o as_bytes(Tail(text))

\* 0x3041..=0x3096 and 0x309d..=0x309f are shifted by 0x60.
hira_to_kata(code) ==
    IF (code >= 12353 /\ code <= 12438) \/ (code >= 12445 /\ code <= 12447)
        THEN code + 96
        ELSE code

\* str::nfkc on the codepoints the texts are drawn from: the fullwidth ASCII
\* block U+FF01..U+FF5E has the compatibility mapping to U+0021..U+007E; kana
\* and ASCII are already in NFKC form.
nfkc(text) ==
    [i \in 1..Len(text) |->
        IF text[i] >= 65281 /\ text[i] <= 65374 THEN text[i] - 65248 ELSE text[i]]

\* char::to_lowercase yields one or more codepoints: ASCII capitals map to
\* their small letters, U+0130 expands to U+0069 U+0307, kana are unchanged.
to_lowercase(code) ==
    IF code >= 65 /\ code <= 90 THEN <<code + 32>>
    ELSE IF code = 304 THEN <<105, 775>>
    ELSE <<code>>

\* chars().flat_map(|c| c.to_lowercase())
RECURSIVE flat_map_to_lowercase(_)
flat_map_to_lowercase(text) ==
    IF text = <<>> THEN <<>>
    ELSE to_lowercase(Head(text)) \o flat_map_to_lowercase(Tail(text))

normalize_for_matching(text) ==
    LET lower == flat_map_to_lowercase(nfkc(text))
    IN  [i \in 1..Len(lower) |-> hira_to_kata(lower[i])]

(***************************************************************************)
(* Lexicon and input buffer.                                               *)
(***************************************************************************)
HIRA_A == <<12354>>           \* "あ"
KATA_A == <<12450>>           \* "ア"
FULLWIDTH_A == <<65313>>      \* "Ａ"
HIRA_I == <<12356>>           \* "い"
LATIN_SMALL_A == <<97>>       \* "a"

WordInfoData(surface, reading_form, pos_id) ==
    [surface |-> surface, reading_form |-> reading_form, pos_id |-> pos_id]

\* The words of dictionary 0, by word field: surface, reading form and the
\* connection parameters of the node the lookup creates for the word.
LexiconWords == 1..4

WordParams(word) ==
    CASE word = 1 -> [surface |-> HIRA_A, reading_form |-> KATA_A \o KATA_A,
                      left_id |-> 1, right_id |-> 1, cost |-> 0]
      [] word = 2 -> [surface |-> HIRA_A, reading_form |-> HIRA_A,
                      left_id |-> 2, right_id |-> 2, cost |-> 1]
      [] word = 3 -> [surface |-> HIRA_A \o HIRA_A, reading_form |-> KATA_A \o KATA_A,
                      left_id |-> 1, right_id |-> 2, cost |-> -1]
      [] word = 4 -> [surface |-> LATIN_SMALL_A, reading_form |-> <<>>,
                      left_id |-> 2, right_id |-> 3, cost |-> 0]

\* SudachiResult: Ok(value) or Err.
Ok(v) == [ok |-> TRUE, val |-> v]
Err == [ok |-> FALSE, val |-> <<>>]

\* A word id of dictionary 1, which the lexicon set does not hold.
UNKNOWN_WORD == WordId_new(1, 0)

\* LexiconSet::get_word_info_subset with the surface and reading form selected;
\* the lookup of a word the lexicon set does not hold fails.
get_word_info_subset(word_id) ==
    IF word_id.dic = 0 /\ word_id.word \in LexiconWords
        THEN Ok(WordInfoData(WordParams(word_id.word).surface,
                             WordParams(word_id.word).reading_form, 0))
        ELSE Err

\* InputBuffer::curr_slice_c: the codepoints of the text in [begin, end).
curr_slice_c(text, begin, end) == SubSeq(text, begin + 1, end)

\* The rewriting of the text that precedes the lookup: compatibility forms
\* and capitals are folded.  The lattice is built on the rewritten text, the
\* current text of the InputBuffer.
rewrite(text) == flat_map_to_lowercase(nfkc(text))

\* The texts an InputBuffer is built from: a run of kana, closed or not by a
\* fullwidth letter.
RECURSIVE KanaRun(_)
KanaRun(n) == IF n = 0 THEN <<>> ELSE HIRA_A \o KanaRun(n - 1)

Texts ==
    { KanaRun(n) : n \in 0..MaxLen } \cup { KanaRun(n - 1) \o FULLWIDTH_A : n \in 1..MaxLen }

\* The nodes a lookup on the text produces: every dictionary word on every
\* span that carries its surface, an OOV node on every single codepoint, and
\* on the first codepoint a node of a word the lexicon set no longer holds.
WordPool(text) ==
    { make_node(b, e, WordParams(w).left_id, WordParams(w).right_id,
                WordParams(w).cost, WordId_new(0, w), FALSE) :
        <<b, e, w>> \in { x \in (0..Len(text)) \X (0..Len(text)) \X LexiconWords :
            x[1] < x[2] /\ curr_slice_c(text, x[1], x[2]) = WordParams(x[3]).surface } }
    \cup
    { make_node(b, b + 1, 3, 3, 2, WordId_new(NATIVE_OOV_DIC_ID, 0), FALSE) :
        b \in 0..(Len(text) - 1) }
    \cup
    (IF text = <<>> THEN {} ELSE {make_node(0, 1, 1, 1, 0, UNKNOWN_WORD, FALSE)})

\* The target readings handed to enumerate_reading_candidates: the empty one,
\* readings in mixed kana, one with a fullwidth letter, and one that has the
\* length of a reading of the texts and is the reading of none.
Targets ==
    { <<>>,
      HIRA_A \o KATA_A,
      HIRA_A \o KATA_A \o KATA_A,
      KATA_A \o FULLWIDTH_A,
      HIRA_I \o KATA_A }

(***************************************************************************)
(* Reading-candidate enumerator: node metadata.                            *)
(***************************************************************************)
Some(v) == [some |-> TRUE, val |-> v]
None == [some |-> FALSE, val |-> 0]

NodeRef(end, index) == [end |-> end, index |-> index]

SearchState(boundary, prev_right_id, reading_offset) ==
    [boundary |-> boundary, prev_right_id |-> prev_right_id,
     reading_offset |-> reading_offset]

reading_for_output(meta) ==
    IF meta.word_info.reading_form = <<>>
        THEN meta.word_info.surface
        ELSE meta.word_info.reading_form

as_candidate_token(meta) ==
    [word_id |-> meta.node.word_id,
     surface |-> meta.word_info.surface,
     reading_form |-> reading_for_output(meta),
     begin |-> meta.node.begin,
     end |-> meta.node.end]

\* The reading form first, then the surface; empty normal forms are skipped
\* and a normal form already seen is not pushed again.
RECURSIVE push_variants(_, _)
push_variants(raws, variants) ==
    IF raws = <<>> THEN variants
    ELSE LET normalized == normalize_for_matching(Head(raws))
         IN  IF normalized = <<>> \/ (\E k \in 1..Len(variants) : variants[k] = normalized)
                THEN push_variants(Tail(raws), variants)
                ELSE push_variants(Tail(raws), Append(variants, normalized))

build_match_variants(word_info) ==
    push_variants(IF word_info.reading_form = <<>>
                     THEN <<word_info.surface>>
                     ELSE <<word_info.reading_form, word_info.surface>>,
                  <<>>)

make_word_info(nd, text) ==
    IF is_oov(nd.word_id)
        THEN Ok(WordInfoData(curr_slice_c(text, nd.begin, nd.end), <<>>, nd.word_id.word))
        ELSE get_word_info_subset(nd.word_id)

NodeMeta(nd, text) ==
    LET word_info == make_word_info(nd, text).val
    IN  [node |-> nd, word_info |-> word_info,
         match_variants |-> build_match_variants(word_info)]

\* The metas of the nodes of one end, from the k-th on, in push order.
RECURSIVE metas_of(_, _, _)
metas_of(nodes, text, k) ==
    IF k > Len(nodes) THEN <<>>
    ELSE <<NodeMeta(nodes[k], text)>> \o metas_of(nodes, text, k + 1)

RECURSIVE metas_by_end_from(_, _, _)
metas_by_end_from(L, text, end) ==
    IF end >= boundary_count(L) THEN <<>>
    ELSE <<metas_of(nodes_ending_at(L, end), text, 1)>> \o metas_by_end_from(L, text, end + 1)

\* metas_by_end[end][k] belongs to the k-th node ending at `end`.
metas_by_end_of(L, text) == metas_by_end_from(L, text, 0)

\* nodes_by_begin[b]: the refs of the nodes beginning at b, in the order the
\* loop over end and over the nodes of each end pushes them.
RECURSIVE refs_beginning_at(_, _, _)
refs_beginning_at(L, begin, end) ==
    IF end >= boundary_count(L) THEN <<>>
    ELSE LET nodes == nodes_ending_at(L, end)
             refs == [k \in 1..Len(nodes) |-> NodeRef(end, k - 1)]
         IN  SelectSeq(refs, LAMBDA r : nodes[r.index + 1].begin = begin)
                \o refs_beginning_at(L, begin, end + 1)

RECURSIVE nodes_by_begin_from(_, _)
nodes_by_begin_from(L, begin) ==
    IF begin >= boundary_count(L) THEN <<>>
    ELSE <<refs_beginning_at(L, begin, 0)>> \o nodes_by_begin_from(L, begin + 1)

nodes_by_begin_of(L) == nodes_by_begin_from(L, 0)

(***************************************************************************)
(* Reading-candidate enumerator: Searcher.  C is the immutable part of the *)
(* Searcher (conn, reading, end_boundary, max_results, min_tokens,         *)
(* nodes_by_begin, metas_by_end), S the mutable part (path, results,       *)
(* min_cost_cache); an operator that takes &mut self returns the new S.    *)
(***************************************************************************)
meta_of(C, node_ref) == C.metas_by_end[node_ref.end + 1][node_ref.index + 1]

\* Mutant of starts_with: any token reading that fits is accepted.
starts_with_any(bytes, offset, prefix) == TRUE

\* self.reading[offset..].starts_with(prefix)
starts_with(bytes, offset, prefix) ==
    /\ offset + Len(prefix) <= Len(bytes)
    /\ SubSeq(bytes, offset + 1, offset + Len(prefix)) = prefix

\* The two nested loops shared by min_additional_cost_from_state and dfs: for
\* the n-th node beginning at the state's boundary and its v-th match variant
\* onward, the steps that pass the three `continue` tests, in loop order.
RECURSIVE admissible_steps(_, _, _, _)
admissible_steps(C, state, n, v) ==
    LET node_refs == C.nodes_by_begin[state.boundary + 1]
    IN  IF n > Len(node_refs) THEN <<>>
        ELSE LET node_ref == node_refs[n]
                 meta == meta_of(C, node_ref)
             IN  IF v > Len(meta.match_variants)
                    THEN admissible_steps(C, state, n + 1, 1)
                    ELSE LET token_reading == as_bytes(meta.match_variants[v])
                             step_cost ==
                                conn_cost(C.conn, state.prev_right_id, meta.node.left_id)
                                    + meta.node.cost
                             next_state ==
                                SearchState(meta.node.end, meta.node.right_id,
                                            state.reading_offset + Len(token_reading))
                         IN  IF \/ token_reading = <<>>
                                \/ state.reading_offset + Len(token_reading) > Len(C.reading)
                                \/ ~starts_with(C.reading, state.reading_offset, token_reading)
                                THEN admissible_steps(C, state, n, v + 1)
                                ELSE <<[node_ref |-> node_ref, step_cost |-> step_cost,
                                        next_state |-> next_state]>>
                                     \o admissible_steps(C, state, n, v + 1)

\* Mutant of min_of_best: the first completion found is kept.
min_of_best_keeps_first(best, candidate) ==
    IF ~best.some THEN Some(candidate) ELSE best

\* match best { None => Some(candidate), Some(cur) => Some(cur.min(candidate)) }
min_of_best(best, candidate) ==
    IF ~best.some THEN Some(candidate)
    ELSE IF best.val <= candidate THEN best
    ELSE Some(candidate)

\* Memoized exact minimum of the remaining cost from a state, None when the
\* state has no completion.  Returns the new S and the value.
RECURSIVE min_additional_cost_from_state(_, _, _)
RECURSIVE min_additional_loop(_, _, _, _, _)
min_additional_loop(C, S, steps, i, best) ==
    IF i > Len(steps) THEN [S |-> S, val |-> best]
    ELSE LET r == min_additional_cost_from_state(C, S, steps[i].next_state)
             candidate == steps[i].step_cost + r.val.val
         IN  IF r.val.some
                THEN min_additional_loop(C, r.S, steps, i + 1,
                        min_of_best(best, candidate))
                ELSE min_additional_loop(C, r.S, steps, i + 1, best)

min_additional_cost_from_state(C, S, state) ==
    IF state \in DOMAIN S.min_cost_cache
        THEN [S |-> S, val |-> S.min_cost_cache[state]]
        ELSE LET r == IF state.boundary = C.end_boundary
                        THEN [S |-> S,
                              val |-> IF state.reading_offset = Len(C.reading)
                                        THEN Some(conn_cost(C.conn, state.prev_right_id, 0))
                                        ELSE None]
                        ELSE min_additional_loop(C, S,
                                admissible_steps(C, state, 1, 1), 1, None)
             IN  [S |-> [r.S EXCEPT !.min_cost_cache = (state :> r.val) @@ @],
                  val |-> r.val]

worst_kept_cost(C, S) ==
    IF Len(S.results) < C.max_results THEN None
    ELSE IF S.results = <<>> THEN None
    ELSE Some(CHOOSE c \in { S.results[k].total_cost : k \in 1..Len(S.results) } :
                \A k \in 1..Len(S.results) : S.results[k].total_cost <= c)

\* Iterator::max_by returns the last of several maximal elements.
record_result(C, S, total_cost) ==
    LET tokens == [k \in 1..Len(S.path) |-> as_candidate_token(meta_of(C, S.path[k]))]
        candidate == [total_cost |-> total_cost, tokens |-> tokens]
    IN  IF Len(S.results) < C.max_results
            THEN [S EXCEPT !.results = Append(@, candidate)]
        ELSE IF S.results = <<>> THEN S
        ELSE LET idx == CHOOSE i \in 1..Len(S.results) :
                            /\ \A k \in 1..Len(S.results) :
                                    S.results[k].total_cost <= S.results[i].total_cost
                            /\ \A k \in (i + 1)..Len(S.results) :
                                    S.results[k].total_cost < S.results[i].total_cost
             IN  IF total_cost < S.results[idx].total_cost
                    THEN [S EXCEPT !.results[idx] = candidate]
                    ELSE S

\* slice::sort_by is stable: x goes behind every element that is not greater.
\* key names the field compared.
RECURSIVE sort_by(_, _)
sort_by(key, seq) ==
    IF seq = <<>> THEN <<>>
    ELSE LET sorted == sort_by(key, SubSeq(seq, 1, Len(seq) - 1))
             x == seq[Len(seq)]
             n == Cardinality({ k \in 1..Len(sorted) : sorted[k][key] <= x[key] })
         IN  SubSeq(sorted, 1, n) \o <<x>> \o SubSeq(sorted, n + 1, Len(sorted))

\* The first loop of dfs: the steps that have a completion, with est_total.
RECURSIVE collect_transitions(_, _, _, _, _, _)
collect_transitions(C, S, steps, i, base_cost, transitions) ==
    IF i > Len(steps) THEN [S |-> S, transitions |-> transitions]
    ELSE LET r == min_additional_cost_from_state(C, S, steps[i].next_state)
         IN  IF r.val.some
                THEN collect_transitions(C, r.S, steps, i + 1, base_cost,
                        Append(transitions,
                            [est_total |-> base_cost + steps[i].step_cost + r.val.val,
                             step_cost |-> steps[i].step_cost,
                             node_ref |-> steps[i].node_ref,
                             next_state |-> steps[i].next_state]))
                ELSE collect_transitions(C, r.S, steps, i + 1, base_cost, transitions)

RECURSIVE dfs(_, _, _, _)
RECURSIVE dfs_loop(_, _, _, _, _)
dfs_loop(C, S, transitions, i, base_cost) ==
    IF i > Len(transitions) THEN S
    ELSE LET worst_kept == worst_kept_cost(C, S)
         IN  IF worst_kept.some /\ transitions[i].est_total > worst_kept.val
                THEN dfs_loop(C, S, transitions, i + 1, base_cost)
                ELSE LET pushed == [S EXCEPT !.path = Append(@, transitions[i].node_ref)]
                         after == dfs(C, pushed, transitions[i].next_state,
                                      base_cost + transitions[i].step_cost)
                         popped == [after EXCEPT !.path = SubSeq(@, 1, Len(@) - 1)]
                     IN  dfs_loop(C, popped, transitions, i + 1, base_cost)

dfs(C, S, state, base_cost) ==
    LET m == min_additional_cost_from_state(C, S, state)
        worst_kept == worst_kept_cost(C, m.S)
    IN  IF ~m.val.some THEN m.S
        ELSE IF worst_kept.some /\ base_cost + m.val.val > worst_kept.val THEN m.S
        ELSE IF state.boundary = C.end_boundary
            THEN IF state.reading_offset # Len(C.reading) THEN m.S
                 ELSE IF Len(m.S.path) < C.min_tokens THEN m.S
                 ELSE record_result(C, m.S,
                        base_cost + conn_cost(C.conn, state.prev_right_id, 0))
        ELSE LET t == collect_transitions(C, m.S, admissible_steps(C, state, 1, 1),
                                          1, base_cost, <<>>)
             IN  dfs_loop(C, t.S, sort_by("est_total", t.transitions), 1, base_cost)

Searcher_new(cm, reading, end_boundary, max_results, min_tokens, nodes_by_begin, metas_by_end) ==
    [C |-> [conn |-> cm, reading |-> as_bytes(reading), end_boundary |-> end_boundary,
            max_results |-> max_results, min_tokens |-> min_tokens,
            nodes_by_begin |-> nodes_by_begin, metas_by_end |-> metas_by_end],
     S |-> [path |-> <<>>, results |-> <<>>,
            min_cost_cache |-> [x \in {} |-> None]]]

run(searcher) ==
    LET S == dfs(searcher.C, searcher.S, SearchState(0, 0, 0), 0)
        sorted == sort_by("total_cost", S.results)
    IN  IF Len(sorted) > searcher.C.max_results
            THEN SubSeq(sorted, 1, searcher.C.max_results)
            ELSE sorted

max(a, b) == IF a >= b THEN a ELSE b

\* The nodes in the order the precomputation loop visits them: by end, then
\* by position among the nodes of that end.
RECURSIVE nodes_from_end(_, _)
nodes_from_end(L, end) ==
    IF end >= boundary_count(L) THEN <<>>
    ELSE nodes_ending_at(L, end) \o nodes_from_end(L, end + 1)

\* The precomputation loop: make_word_info(..)? leaves at the first lookup
\* that fails.  ok: no lookup failed; lookups: the lexicon lookups made.
precompute(L, text) ==
    LET nodes == nodes_from_end(L, 0)
        failed == { i \in 1..Len(nodes) : ~make_word_info(nodes[i], text).ok }
        visited == IF failed = {} THEN Len(nodes)
                   ELSE CHOOSE i \in failed : \A j \in failed : i <= j
    IN  [ok |-> failed = {},
         lookups |-> Cardinality({ i \in 1..visited : ~is_oov(nodes[i].word_id) })]

\* Mutant of enumerate_reading_candidates: the arguments are tested after
\* the precomputation loop.
enumerate_checks_after_lookups(L, text, cm, reading, max_results, min_tokens) ==
    LET normalized_reading == normalize_for_matching(reading)
        Returns(r, n) == [ok |-> r.ok, val |-> r.val, lookups |-> n]
        loop == precompute(L, text)
    IN  IF ~loop.ok THEN Returns(Err, loop.lookups)
        ELSE IF max_results = 0 THEN Returns(Ok(<<>>), loop.lookups)
        ELSE IF normalized_reading = <<>> THEN Returns(Ok(<<>>), loop.lookups)
        ELSE IF boundary_count(L) = 0 THEN Returns(Ok(<<>>), loop.lookups)
        ELSE Returns(Ok(run(Searcher_new(cm, normalized_reading, boundary_count(L) - 1,
                                         max_results, max(min_tokens, 1),
                                         nodes_by_begin_of(L), metas_by_end_of(L, text)))),
                     loop.lookups)

\* The SudachiResult with, next to it, the lexicon lookups the call made.
enumerate_reading_candidates(L, text, cm, reading, max_results, min_tokens) ==
    LET normalized_reading == normalize_for_matching(reading)
        Returns(r, n) == [ok |-> r.ok, val |-> r.val, lookups |-> n]
        loop == precompute(L, text)
    IN  IF max_results = 0 THEN Returns(Ok(<<>>), 0)
        ELSE IF normalized_reading = <<>> THEN Returns(Ok(<<>>), 0)
        ELSE IF boundary_count(L) = 0 THEN Returns(Ok(<<>>), 0)
        ELSE IF ~loop.ok THEN Returns(Err, loop.lookups)
        ELSE Returns(Ok(run(Searcher_new(cm, normalized_reading, boundary_count(L) - 1,
                                         max_results, max(min_tokens, 1),
                                         nodes_by_begin_of(L), metas_by_end_of(L, text)))),
                     loop.lookups)

(***************************************************************************)
(* The enumerator's state machine: a text is analysed into a lattice, the  *)
(* lattice is filled with the words found on the text, then it is          *)
(* searched for target readings.                                           *)
(***************************************************************************)
MaxResults == 2
MaxMinTokens == 2

Query(reading, max_results, min_tokens) ==
    [called |-> TRUE, reading |-> reading, max_results |-> max_results,
     min_tokens |-> min_tokens]

\* The connection matrices the search runs on: one with ties, one with
\* negative costs.
ConnSetRC == {ConnZero, ConnNeg}

InitRC ==
    /\ lattice = Lattice_default
    /\ conn \in ConnSetRC
    /\ result = <<>>
    /\ ret = Ret("default", 0, FALSE)
    /\ inserted = <<>>
    /\ reset_length = -1
    /\ input = <<>>
    /\ query = NoQuery
    /\ candidates = <<>>
    /\ original = <<>>
    /\ lookups = 0
    /\ py_input = <<>>
    /\ py_word_info = <<>>

\* A new text: the lattice is reset to its length in codepoints.  A search
\* changes nothing a reset reads, so the reset that follows a search reaches
\* the state the reset in place of that search reaches.
ResetText ==
    \E orig \in Texts :
        /\ ~query.called
        /\ original' = orig
        /\ lookups' = 0
        /\ input' = rewrite(orig)
        /\ lattice' = reset(lattice, Len(rewrite(orig)))
        /\ reset_length' = Len(rewrite(orig))
        /\ inserted' = <<>>
        /\ query' = NoQuery
        /\ candidates' = <<>>
        /\ ret' = Ret("reset", 0, FALSE)
        /\ UNCHANGED <<conn, py_input, py_word_info, result>>

\* Lattice construction: each word found on the text is inserted once, the
\* boundaries in ascending order; construction is over once the lattice has
\* been searched.
InsertWord ==
    /\ lattice.size >= 1
    /\ ~query.called
    /\ Len(inserted) < MaxNodes
    /\ \E nd \in WordPool(input) :
        /\ \A k \in 1..Len(inserted) : inserted[k] # nd /\ inserted[k].end <= nd.end
        /\ LET r == insert(lattice, nd, conn)
           IN  /\ lattice' = r.lat
               /\ ret' = Ret("insert", r.cost, FALSE)
        /\ inserted' = Append(inserted, nd)
        /\ UNCHANGED <<conn, py_input, py_word_info, result, reset_length, input, query, candidates, original, lookups>>

\* The search reads the lattice and leaves it as it is, so one search per
\* analysis reaches every result a later search of the same lattice has.
Enumerate ==
    \E reading \in Targets, max_results \in 0..MaxResults, min_tokens \in 0..MaxMinTokens :
        /\ ~query.called
        /\ LET r == enumerate_reading_candidates(lattice, input, conn, reading,
                                                  max_results, min_tokens)
           IN  /\ candidates' = r.val
               /\ lookups' = r.lookups
               /\ ret' = Ret("enumerate_reading_candidates", IF r.ok THEN 1 ELSE 0, FALSE)
        /\ query' = Query(reading, max_results, min_tokens)
        /\ UNCHANGED <<lattice, conn, py_input, py_word_info, result, inserted, reset_length, input, original>>

NextRC ==
    \/ ResetText
    \/ InsertWord
    \/ Enumerate

SpecRC == InitRC /\ [][NextRC]_vars

(***************************************************************************)
(* The enumerator on a longer text: a run of kana one codepoint longer     *)
(* than the texts above, filled with the one-codepoint dictionary words    *)
(* and searched for the reading that is one kana longer than the text, so  *)
(* that one token of a path is matched by its two-kana reading form.       *)
(***************************************************************************)
LongText == KanaRun(MaxLen + 1)

LongTarget == KanaRun(MaxLen + 2)

\* The one-codepoint dictionary words found on the text.
KanaWordPool(text) ==
    { nd \in WordPool(text) : nd.end = nd.begin + 1 /\ nd.word_id.dic = 0 }

ResetLongText ==
    /\ ~query.called
    /\ original' = LongText
    /\ lookups' = 0
    /\ input' = rewrite(LongText)
    /\ lattice' = reset(lattice, Len(rewrite(LongText)))
    /\ reset_length' = Len(rewrite(LongText))
    /\ inserted' = <<>>
    /\ query' = NoQuery
    /\ candidates' = <<>>
    /\ ret' = Ret("reset", 0, FALSE)
    /\ UNCHANGED <<conn, py_input, py_word_info, result>>

InsertKanaWord ==
    /\ lattice.size >= 1
    /\ ~query.called
    /\ Len(inserted) < MaxNodes + 1
    /\ \E nd \in KanaWordPool(input) :
        /\ \A k \in 1..Len(inserted) : inserted[k] # nd /\ inserted[k].end <= nd.end
        /\ LET r == insert(lattice, nd, conn)
           IN  /\ lattice' = r.lat
               /\ ret' = Ret("insert", r.cost, FALSE)
        /\ inserted' = Append(inserted, nd)
        /\ UNCHANGED <<conn, py_input, py_word_info, result, reset_length, input, query, candidates, original, lookups>>

EnumerateLong ==
    \E max_results \in 0..(MaxResults + 1), min_tokens \in 0..MaxMinTokens :
        /\ ~query.called
        /\ LET r == enumerate_reading_candidates(lattice, input, conn, LongTarget,
                                                  max_results, min_tokens)
           IN  /\ candidates' = r.val
               /\ lookups' = r.lookups
               /\ ret' = Ret("enumerate_reading_candidates", IF r.ok THEN 1 ELSE 0, FALSE)
        /\ query' = Query(LongTarget, max_results, min_tokens)
        /\ UNCHANGED <<lattice, conn, py_input, py_word_info, result, inserted, reset_length, input, original>>

NextLong ==
    \/ ResetLongText
    \/ InsertKanaWord
    \/ EnumerateLong

SpecLong == InitRC /\ [][NextLong]_vars

(***************************************************************************)
(* The enumerator next to the Viterbi search: a text that ends in a space, *)
(* the lattice built under either whitespace policy, connected to EOS and  *)
(* then searched by reading.                                               *)
(***************************************************************************)
SPACE == <<32>>               \* " "

SpacedText == HIRA_A \o SPACE

\* The readings of the text: by the surface form and by the reading form of
\* the first word.
SpacedTargets == { HIRA_A \o SPACE, KATA_A \o KATA_A \o SPACE }

\* The nodes found on the text: the dictionary words, and on every space a
\* whitespace node of no dictionary (surface from the text, no reading form).
SpacedWordPool(text) ==
    { nd \in WordPool(text) : nd.word_id.dic = 0 }
    \cup
    { make_node(b, b + 1, 1, 3, 0, WordId_new(NATIVE_OOV_DIC_ID, 0), TRUE) :
        b \in { x \in 0..(Len(text) - 1) : <<text[x + 1]>> = SPACE } }

InitTop ==
    /\ lattice = Lattice_default
    /\ conn \in ConnSet
    /\ result = <<>>
    /\ ret = Ret("default", 0, FALSE)
    /\ inserted = <<>>
    /\ reset_length = -1
    /\ input = <<>>
    /\ query = NoQuery
    /\ candidates = <<>>
    /\ original = <<>>
    /\ lookups = 0
    /\ py_input = <<>>
    /\ py_word_info = <<>>

\* The policy is set before the analysis of a text begins.
SetBridgeBeforeText ==
    /\ inserted = <<>>
    /\ ~lattice.eos.some
    /\ ~query.called
    /\ \E enabled \in BOOLEAN :
        LET r == set_global_whitespace_bridge(lattice, enabled)
        IN  /\ lattice' = r.lat
            /\ ret' = Ret("set_global_whitespace_bridge", IF r.previous THEN 1 ELSE 0, FALSE)
    /\ UNCHANGED <<conn, py_input, py_word_info, result, inserted, reset_length, input, query, candidates,
                   original, lookups>>

ResetSpacedText ==
    /\ ~query.called
    /\ original' = SpacedText
    /\ lookups' = 0
    /\ input' = rewrite(SpacedText)
    /\ lattice' = reset(lattice, Len(rewrite(SpacedText)))
    /\ reset_length' = Len(rewrite(SpacedText))
    /\ inserted' = <<>>
    /\ query' = NoQuery
    /\ candidates' = <<>>
    /\ ret' = Ret("reset", 0, FALSE)
    /\ UNCHANGED <<conn, py_input, py_word_info, result>>

InsertSpacedWord ==
    /\ lattice.size >= 1
    /\ ~lattice.eos.some
    /\ ~query.called
    /\ Len(inserted) < MaxNodes
    /\ \E nd \in SpacedWordPool(input) :
        /\ \A k \in 1..Len(inserted) : inserted[k] # nd /\ inserted[k].end <= nd.end
        /\ LET r == insert(lattice, nd, conn)
           IN  /\ lattice' = r.lat
               /\ ret' = Ret("insert", r.cost, FALSE)
        /\ inserted' = Append(inserted, nd)
        /\ UNCHANGED <<conn, py_input, py_word_info, result, reset_length, input, query, candidates, original, lookups>>

\* The Viterbi search is closed once the words of the text are inserted.
ConnectEosOfText ==
    /\ lattice.size >= 1
    /\ ~lattice.eos.some
    /\ ~query.called
    /\ LET r == connect_eos(lattice, conn)
       IN  /\ lattice' = r.lat
           /\ ret' = Ret("connect_eos", IF r.ok THEN 1 ELSE 0, FALSE)
    /\ UNCHANGED <<conn, py_input, py_word_info, result, inserted, reset_length, input, query, candidates,
                   original, lookups>>

EnumerateSpaced ==
    \E reading \in SpacedTargets, max_results \in 0..MaxResults, min_tokens \in 0..MaxMinTokens :
        /\ ~query.called
        /\ LET r == enumerate_reading_candidates(lattice, input, conn, reading,
                                                  max_results, min_tokens)
           IN  /\ candidates' = r.val
               /\ lookups' = r.lookups
               /\ ret' = Ret("enumerate_reading_candidates", IF r.ok THEN 1 ELSE 0, FALSE)
        /\ query' = Query(reading, max_results, min_tokens)
        /\ UNCHANGED <<lattice, conn, py_input, py_word_info, result, inserted, reset_length, input, original>>

NextTop ==
    \/ SetBridgeBeforeText
    \/ ResetSpacedText
    \/ InsertSpacedWord
    \/ ConnectEosOfText
    \/ EnumerateSpaced

SpecTop == InitTop /\ [][NextTop]_vars

(***************************************************************************)
(* The word-id encoding at the boundary to Python callers.                 *)
(*                                                                         *)
(* A 32-bit value, u32 or i32, is held as the i32 with the same bits: the  *)
(* casts `as u32` and `as i32` leave the bits as they are.                 *)
(***************************************************************************)
LEGACY_LEX_STRIDE == 100000000
NATIVE_LEX_SHIFT == 28
NATIVE_WORD_MASK == 268435455

I32Min == (-I32Max) - 1

\* u32 >> n for 0 < n < 32: the sign bit is shifted as a value bit.
u32_shr(bits, n) ==
    IF bits >= 0 THEN bits \div (2 ^ n) ELSE (bits \div (2 ^ n)) + 2 ^ (32 - n)

\* u32 & mask for a mask of the low bits, mask = 2^k - 1.
u32_and_low(bits, mask) == bits % (mask + 1)

\* u32 >= v for a value 0 < v < 2^31.
u32_ge(bits, v) == bits < 0 \/ bits >= v

\* i32 + i32 leaves the range of i32.
i32_add_overflows(a, b) ==
    IF b >= 0 THEN a > I32Max - b ELSE a < I32Min - b

\* The sum on 32 bits, as a build without overflow checks computes it.
i32_wrapping_add(a, b) ==
    IF ~i32_add_overflows(a, b) THEN a + b
    ELSE IF b >= 0 THEN ((a - I32Max) - 1) + ((b - I32Max) - 1)
    ELSE ((a + I32Max) + 1) + ((b + I32Max) + 1)

\* WordId::from_raw: the dic field is the high 4 bits, the word field the low
\* 28 bits of the raw value.
WordId_from_raw(raw) ==
    WordId_new(u32_shr(raw, NATIVE_LEX_SHIFT), u32_and_low(raw, NATIVE_WORD_MASK))

\* WordId::as_raw: dic << 28 | word.
WordId_as_raw(word_id) ==
    IF word_id.dic >= 8
    THEN (word_id.dic - 16) * (2 ^ NATIVE_LEX_SHIFT) + word_id.word
    ELSE word_id.dic * (2 ^ NATIVE_LEX_SHIFT) + word_id.word

\* Mutant of pack_legacy_word_id: the first user lexicon is packed as the
\* system lexicon is.
pack_legacy_skips_first_lexicon(lex_id, relative_word_id) ==
    IF lex_id <= 1
    THEN relative_word_id
    ELSE i32_wrapping_add(lex_id * LEGACY_LEX_STRIDE, relative_word_id)

\* lex_id is a 4-bit field or -1: the product stays below 2^31.
pack_legacy_word_id(lex_id, relative_word_id) ==
    IF lex_id <= 0
    THEN relative_word_id
    ELSE i32_wrapping_add(lex_id * LEGACY_LEX_STRIDE, relative_word_id)

\* An i32 operation of pack_legacy_word_id overflows on these arguments.
pack_legacy_overflows(lex_id, relative_word_id) ==
    /\ lex_id > 0
    /\ \/ lex_id > I32Max \div LEGACY_LEX_STRIDE
       \/ i32_add_overflows(lex_id * LEGACY_LEX_STRIDE, relative_word_id)

unpack_native_word_id(raw_word_id) ==
    LET lex_id == u32_shr(raw_word_id, NATIVE_LEX_SHIFT) % 16
        word_id == u32_and_low(raw_word_id, NATIVE_WORD_MASK)
    IN  IF lex_id = NATIVE_OOV_DIC_ID THEN <<-1, word_id>> ELSE <<lex_id, word_id>>

\* Returns (lex_id, legacy id, packed id, relative id).
decode_dictionary_form_word_id(raw_dictionary_form_word_id, default_lex_id) ==
    IF raw_dictionary_form_word_id = -1 THEN <<-1, -1, -1, -1>>
    ELSE
    LET raw == raw_dictionary_form_word_id
        native_lex_id == unpack_native_word_id(raw)[1]
        native_word_id == unpack_native_word_id(raw)[2]
    IN  IF u32_ge(raw, 2 ^ NATIVE_LEX_SHIFT) /\ native_lex_id > 0
        THEN LET relative == native_word_id
                 legacy == pack_legacy_word_id(native_lex_id, relative)
                 packed == raw_dictionary_form_word_id
             IN  <<native_lex_id, legacy, packed, relative>>
        ELSE IF raw_dictionary_form_word_id >= LEGACY_LEX_STRIDE
        THEN LET legacy_lex_id == raw_dictionary_form_word_id \div LEGACY_LEX_STRIDE
                 relative == raw_dictionary_form_word_id % LEGACY_LEX_STRIDE
             IN  IF legacy_lex_id > 0
                 THEN <<legacy_lex_id, raw_dictionary_form_word_id,
                        raw_dictionary_form_word_id, relative>>
                 ELSE <<default_lex_id,
                        pack_legacy_word_id(default_lex_id, raw_dictionary_form_word_id),
                        raw_dictionary_form_word_id, raw_dictionary_form_word_id>>
        ELSE LET relative == raw_dictionary_form_word_id
                 legacy == pack_legacy_word_id(default_lex_id, relative)
             IN  <<default_lex_id, legacy, raw_dictionary_form_word_id, relative>>

\* The id fields of the PyWordInfo built from a WordInfo and a WordId;
\* overflow: an i32 operation on the way overflowed.
from_word_info(word_info, word_id) ==
    LET ids == IF is_oov(word_id)
               THEN <<-1, -1, WordId_as_raw(word_id), -1>>
               ELSE LET lex_id == word_id.dic
                        relative_word_id == word_id.word
                        legacy_word_id == pack_legacy_word_id(lex_id, relative_word_id)
                    IN  <<lex_id, legacy_word_id, WordId_as_raw(word_id), relative_word_id>>
        df == decode_dictionary_form_word_id(word_info.dictionary_form_word_id, ids[1])
    IN  [word_id |-> ids[2],
         word_id_packed |-> ids[3],
         word_id_relative |-> ids[4],
         lex_id |-> ids[1],
         dictionary_id |-> ids[1],
         dictionary_form_lex_id |-> df[1],
         dictionary_form_word_id |-> df[2],
         dictionary_form_word_id_packed |-> df[3],
         dictionary_form_word_id_relative |-> df[4],
         overflow |-> /\ ~is_oov(word_id)
                      /\ pack_legacy_overflows(word_id.dic, word_id.word)]

\* The dic fields and the word fields of the word ids handed in: every
\* lexicon, the OOV marker, and the word fields around the legacy stride and
\* at the end of the 28 bits.
DicFields == 0..15

WordFields == {0, 1, LEGACY_LEX_STRIDE - 1, LEGACY_LEX_STRIDE, NATIVE_WORD_MASK}

\* The relative ids of the dictionary forms: the ends of 0..10^8 - 1 and the
\* ids next to them.
RelativeIds == {0, 1, LEGACY_LEX_STRIDE - 2, LEGACY_LEX_STRIDE - 1}

\* lex_id << 28 | r, the native form of a dictionary-form id.
NativeForm(lex_id, r) ==
    IF lex_id >= 8 THEN (lex_id - 16) * (2 ^ 28) + r ELSE lex_id * (2 ^ 28) + r

\* lex_id * 100_000_000 + r, the legacy form.
LegacyForm(lex_id, r) == lex_id * 100000000 + r

\* The dictionary_form_word_id values of the WordInfo: no dictionary form,
\* ids relative to the word's own lexicon, native and legacy forms.
DictionaryFormWordIds ==
    {-1, 0, 1}
    \cup { NativeForm(l, r) : l \in 1..14, r \in RelativeIds }
    \cup { LegacyForm(l, r) : l \in 1..14, r \in RelativeIds }

PyInput(dic, word, dictionary_form_word_id) ==
    [dic |-> dic, word |-> word,
     raw |-> IF dic >= 8 THEN (dic - 16) * (2 ^ 28) + word ELSE dic * (2 ^ 28) + word,
     dictionary_form_word_id |-> dictionary_form_word_id]

InitWordId ==
    /\ lattice = Lattice_default
    /\ conn = ConnZero
    /\ result = <<>>
    /\ ret = Ret("default", 0, FALSE)
    /\ inserted = <<>>
    /\ reset_length = -1
    /\ input = <<>>
    /\ query = NoQuery
    /\ candidates = <<>>
    /\ original = <<>>
    /\ lookups = 0
    /\ py_input \in { PyInput(d, w, f) :
                        d \in DicFields, w \in WordFields, f \in DictionaryFormWordIds }
    /\ py_word_info = <<>>

\* sudachipy builds the PyWordInfo of a morpheme from its WordInfo and WordId.
FromWordInfo ==
    /\ py_word_info = <<>>
    /\ py_word_info' =
           <<from_word_info([dictionary_form_word_id |-> py_input.dictionary_form_word_id],
                            WordId_from_raw(py_input.raw))>>
    /\ ret' = Ret("from_word_info", 0, FALSE)
    /\ UNCHANGED <<lattice, conn, py_input, result, inserted, reset_length, input, query,
                   candidates, original, lookups>>

NextWordId == FromWordInfo

SpecWordId == InitWordId /\ [][NextWordId]_vars

(***************************************************************************)
(* The lattice of one sentence with room for a word, a whitespace and a    *)
(* word behind it, so that inserted nodes are entered over the bridge.     *)
(***************************************************************************)
SentenceLength == MaxLen + 1

\* The transition out of whitespace into a word of left_id 1 is dear; behind
\* right_id 1 it is cheaper, behind right_id 2 it is free.
ConnCarrier ==
    [l \in Ids |-> [r \in Ids |->
        CASE l = 3 /\ r = 1 -> 5
          [] l = 1 /\ r = 1 -> 4
          [] OTHER -> 0]]

InitSentence ==
    /\ lattice = Lattice_default
    /\ conn \in {ConnNeg, ConnCarrier}
    /\ result = <<>>
    /\ ret = Ret("default", 0, FALSE)
    /\ inserted = <<>>
    /\ reset_length = -1
    /\ input = <<>>
    /\ query = NoQuery
    /\ candidates = <<>>
    /\ original = <<>>
    /\ lookups = 0
    /\ py_input = <<>>
    /\ py_word_info = <<>>

SetBridgeOfSentence ==
    /\ reset_length = -1
    /\ \E enabled \in BOOLEAN :
        LET r == set_global_whitespace_bridge(lattice, enabled)
        IN  /\ lattice' = r.lat
            /\ ret' = Ret("set_global_whitespace_bridge", IF r.previous THEN 1 ELSE 0, FALSE)
    /\ UNCHANGED <<conn, py_input, py_word_info, result, inserted, reset_length, input, query,
                   candidates, original, lookups>>

ResetSentence ==
    /\ reset_length = -1
    /\ lattice' = reset(lattice, SentenceLength)
    /\ ret' = Ret("reset", SentenceLength, FALSE)
    /\ reset_length' = SentenceLength
    /\ UNCHANGED <<conn, py_input, py_word_info, result, inserted, input, query, candidates,
                   original, lookups>>

\* The insert calls of the sentence, in non-decreasing order of end.
InsertInSentence ==
    /\ lattice.size >= 1
    /\ Len(inserted) < MaxNodes
    /\ \E nd \in Pool(lattice.size - 1) :
        LET r == insert(lattice, nd, conn)
        IN  /\ inserted # <<>> => inserted[Len(inserted)].end <= nd.end
            /\ lattice' = r.lat
            /\ ret' = Ret("insert", r.cost, FALSE)
            /\ inserted' = Append(inserted, nd)
    /\ UNCHANGED <<conn, py_input, py_word_info, result, reset_length, input, query,
                   candidates, original, lookups>>

NextSentence ==
    \/ SetBridgeOfSentence
    \/ ResetSentence
    \/ InsertInSentence

SpecSentence == InitSentence /\ [][NextSentence]_vars

(***************************************************************************)
(* The lattice under callers that do not keep the order of insertion:      *)
(* insert accepts the nodes of the sentence in any order of end.           *)
(***************************************************************************)
InitAnyOrder ==
    /\ lattice = Lattice_default
    /\ conn \in ConnSet
    /\ result = <<>>
    /\ ret = Ret("default", 0, FALSE)
    /\ inserted = <<>>
    /\ reset_length = -1
    /\ input = <<>>
    /\ query = NoQuery
    /\ candidates = <<>>
    /\ original = <<>>
    /\ lookups = 0
    /\ py_input = <<>>
    /\ py_word_info = <<>>

SetBridgeAnyOrder ==
    /\ inserted = <<>>
    /\ \E enabled \in BOOLEAN :
        LET r == set_global_whitespace_bridge(lattice, enabled)
        IN  /\ lattice' = r.lat
            /\ ret' = Ret("set_global_whitespace_bridge", IF r.previous THEN 1 ELSE 0, FALSE)
    /\ result' = <<>>
    /\ UNCHANGED <<conn, py_input, py_word_info, inserted, reset_length, input, query,
                   candidates, original, lookups>>

ResetAnyOrder ==
    \E n \in 0..MaxLen :
        /\ lattice' = reset(lattice, n)
        /\ ret' = Ret("reset", n, FALSE)
        /\ inserted' = <<>>
        /\ reset_length' = n
        /\ result' = <<>>
        /\ UNCHANGED <<conn, py_input, py_word_info, input, query, candidates, original, lookups>>

\* insert indexes ends[begin] and ends[end]: the nodes are nodes of the
\* current sentence; nothing in insert reads the order of the calls.
InsertAnyOrder ==
    /\ lattice.size >= 1
    /\ Len(inserted) < MaxNodes
    /\ \E nd \in Pool(lattice.size - 1) :
        LET r == insert(lattice, nd, conn)
        IN  /\ lattice' = r.lat
            /\ ret' = Ret("insert", r.cost, FALSE)
            /\ inserted' = Append(inserted, nd)
    /\ result' = <<>>
    /\ UNCHANGED <<conn, py_input, py_word_info, reset_length, input, query, candidates,
                   original, lookups>>

ConnectEosAnyOrder ==
    /\ lattice.size >= 1
    /\ LET r == connect_eos(lattice, conn)
       IN  /\ lattice' = r.lat
           /\ ret' = Ret("connect_eos", IF r.ok THEN 1 ELSE 0, FALSE)
    /\ result' = <<>>
    /\ UNCHANGED <<conn, py_input, py_word_info, inserted, reset_length, input, query,
                   candidates, original, lookups>>

FillTopPathAnyOrder ==
    /\ LET r == fill_top_path(lattice, <<>>)
       IN  /\ result' = r.result
           /\ ret' = Ret("fill_top_path", 0, r.panic)
    /\ UNCHANGED <<lattice, conn, py_input, py_word_info, inserted, reset_length, input, query,
                   candidates, original, lookups>>

NextAnyOrder ==
    \/ SetBridgeAnyOrder
    \/ ResetAnyOrder
    \/ InsertAnyOrder
    \/ ConnectEosAnyOrder
    \/ FillTopPathAnyOrder

SpecAnyOrder == InitAnyOrder /\ [][NextAnyOrder]_vars

(***************************************************************************)
(* Reference definitions for the properties: chains of nodes and their     *)
(* costs, computed by enumeration and not by the dynamic programme.        *)
(***************************************************************************)
Range(seq) == { seq[i] : i \in 1..Len(seq) }

MinOf(S) == CHOOSE x \in S : \A y \in S : x <= y

\* The insert calls were made in non-decreasing order of end.
Ordered(seq) == \A i \in 1..(Len(seq) - 1) : seq[i].end <= seq[i + 1].end

\* The chains of nodes of S that tile [0, b] contiguously, first node first.
RECURSIVE ChainsTo(_, _)
ChainsTo(S, b) ==
    IF b = 0 THEN {<<>>}
    ELSE UNION { { Append(c, n) : c \in ChainsTo(S, n.begin) } :
                 n \in { m \in S : m.end = b } }

\* Sum of node costs and conn(previous.right_id, next.left_id), BOS right_id = 0.
RECURSIVE PlainCostFrom(_, _, _, _)
PlainCostFrom(chain, cm, i, prev_right_id) ==
    IF i > Len(chain) THEN 0
    ELSE cm[prev_right_id][chain[i].left_id] + chain[i].cost
         + PlainCostFrom(chain, cm, i + 1, chain[i].right_id)

PlainChainCost(chain, cm) == PlainCostFrom(chain, cm, 1, 0)

\* The bridged cost of a chain: a transition from a whitespace node into a
\* non-whitespace node may use the right_id of the most recent non-whitespace
\* node before the whitespace on the same chain (carrier), when there is one.
RECURSIVE BridgedCostFrom(_, _, _, _, _, _)
BridgedCostFrom(chain, cm, i, prev_right_id, prev_is_ws, carrier) ==
    IF i > Len(chain) THEN 0
    ELSE LET r == chain[i]
             normal == cm[prev_right_id][r.left_id]
             trans == IF prev_is_ws /\ ~r.is_whitespace /\ carrier # NONE_RIGHT_ID
                         /\ cm[carrier][r.left_id] < normal
                      THEN cm[carrier][r.left_id]
                      ELSE normal
         IN  trans + r.cost
             + BridgedCostFrom(chain, cm, i + 1, r.right_id, r.is_whitespace,
                               IF r.is_whitespace THEN carrier ELSE r.right_id)

BridgedChainCost(chain, cm) == BridgedCostFrom(chain, cm, 1, 0, FALSE, NONE_RIGHT_ID)

\* The EOS node of a sentence of n codepoints, as the last element of a chain.
EosOf(n) == make_node(n, n, 0, 0, 0, WordId_EOS, FALSE)

\* The same reset and the same insert calls on a fresh lattice with the given policy.
RECURSIVE ReplayFrom(_, _, _, _)
ReplayFrom(L, seq, cm, i) ==
    IF i > Len(seq) THEN L
    ELSE ReplayFrom(insert(L, seq[i], cm).lat, seq, cm, i + 1)

Replay(flag, n, seq, cm) ==
    ReplayFrom(reset(set_global_whitespace_bridge(Lattice_default, flag).lat, n), seq, cm, 1)

\* The nodes of the top path, last token first (what fill_top_path appends).
TopPathNodes(L) ==
    LET p == fill_top_path(L, <<>>).result
    IN  [i \in 1..Len(p) |-> node(L, p[i]).node]

Reverse(seq) == [i \in 1..Len(seq) |-> seq[Len(seq) + 1 - i]]

(***************************************************************************)
(* C1..C4: optimality of the stored costs.                                 *)
(***************************************************************************)

\* C1: with global_whitespace_bridge false and insert calls in non-decreasing
\* end order, the cost insert returns is the minimum over the chains of
\* already inserted nodes tiling [0, node.begin] of the chain cost with the
\* node appended, and i32::MAX exactly when there is no such chain.
C1_InsertReturnsMinChainCost ==
    (/\ ret.op = "insert"
     /\ ~lattice.global_whitespace_bridge
     /\ Ordered(inserted))
    => LET nd == inserted[Len(inserted)]
           before == Range(SubSeq(inserted, 1, Len(inserted) - 1))
           costs == { PlainChainCost(Append(c, nd), conn) : c \in ChainsTo(before, nd.begin) }
       IN  /\ (costs = {}) <=> (ret.val = I32Max)
           /\ costs # {} => ret.val = MinOf(costs)

\* C1 witness: an insert whose node is reached by two chains of different
\* cost, the cheaper one through the predecessor inserted second.
C1_Witness ==
    /\ ret.op = "insert"
    /\ ~lattice.global_whitespace_bridge
    /\ Ordered(inserted)
    /\ Len(inserted) = 3
    /\ inserted[3].begin = 1
    /\ inserted[1].end = 1
    /\ inserted[2].end = 1
    /\ PlainChainCost(<<inserted[2], inserted[3]>>, conn)
         < PlainChainCost(<<inserted[1], inserted[3]>>, conn)
    /\ ret.val = PlainChainCost(<<inserted[2], inserted[3]>>, conn)

\* C2: with global_whitespace_bridge true the cost stored by connect_eos is
\* the minimum over all contiguous BOS-to-EOS chains of the bridged chain cost.
C2_BridgedDpIsOptimal ==
    (/\ ret.op = "connect_eos"
     /\ ret.val = 1
     /\ lattice.global_whitespace_bridge
     /\ Ordered(inserted))
    => LET n == lattice.size - 1
           costs == { BridgedChainCost(Append(c, EosOf(n)), conn) :
                        c \in ChainsTo(Range(inserted), n) }
       IN  lattice.eos.cost = MinOf(costs)

\* C3: for the same reset and the same inserted nodes, connect_eos succeeds
\* with the bridge enabled iff it succeeds with it disabled, and the cost
\* it stores with the bridge enabled is not greater.
C3_BridgingNeverWorsens ==
    (ret.op = "connect_eos" /\ lattice.global_whitespace_bridge)
    => LET plain == connect_eos(Replay(FALSE, lattice.size - 1, inserted, conn), conn)
       IN  /\ (ret.val = 1) <=> plain.ok
           /\ ret.val = 1 => lattice.eos.cost <= plain.lat.eos.cost

\* C3 witness: a successful connect_eos with the bridge enabled whose stored
\* cost is strictly smaller than the one stored without the bridge.
C3_Witness ==
    /\ ret.op = "connect_eos"
    /\ ret.val = 1
    /\ lattice.global_whitespace_bridge
    /\ LET plain == connect_eos(Replay(FALSE, lattice.size - 1, inserted, conn), conn)
       IN  plain.ok /\ lattice.eos.cost < plain.lat.eos.cost

\* C4 as claimed: if the top path found with the bridge disabled holds no
\* whitespace node, connect_eos stores the same cost with the bridge enabled.
C4_NoWhitespaceOnPlainPath ==
    (/\ ret.op = "connect_eos" /\ ret.val = 1
     /\ lattice.global_whitespace_bridge
     /\ lattice.size >= 2)
    => LET plain == connect_eos(Replay(FALSE, lattice.size - 1, inserted, conn), conn).lat
       IN  (\A nd \in Range(TopPathNodes(plain)) : ~nd.is_whitespace)
           => lattice.eos.cost = plain.eos.cost

\* C4 amended: if the top path found with the bridge enabled holds no
\* whitespace node, connect_eos stores the same cost as with the bridge disabled.
C4_NoWhitespaceOnBridgedPath ==
    (/\ ret.op = "connect_eos" /\ ret.val = 1
     /\ lattice.global_whitespace_bridge
     /\ lattice.size >= 2)
    => LET plain == connect_eos(Replay(FALSE, lattice.size - 1, inserted, conn), conn).lat
       IN  (\A nd \in Range(TopPathNodes(lattice)) : ~nd.is_whitespace)
           => lattice.eos.cost = plain.eos.cost

\* C4 witness: the bridge is enabled, a whitespace node with a carrier ends
\* at the final boundary, and the top path avoids it.
C4_Witness ==
    /\ ret.op = "connect_eos" /\ ret.val = 1
    /\ lattice.global_whitespace_bridge
    /\ lattice.size >= 2
    /\ \A nd \in Range(TopPathNodes(lattice)) : ~nd.is_whitespace
    /\ \E k \in 1..Len(lattice.ends[lattice.size]) :
          /\ lattice.ends_full[lattice.size][k].is_whitespace
          /\ lattice.ends[lattice.size][k].total_cost # I32Max
          /\ lattice.ends[lattice.size][k].prev_non_ws_right_id # NONE_RIGHT_ID

(***************************************************************************)
(* C5..C8: reset, connect_eos and fill_top_path.                           *)
(***************************************************************************)

\* C5: after reset(N), whatever came before, boundary_count() = N + 1, ends[0]
\* holds exactly the BOS VNode (right_id 0, total_cost 0, carrier 0xFFFF), every
\* other ends[i] of the outer array is empty, ends_full[0] and indices[0] are
\* empty and eos is unset.
C5_ResetPostcondition ==
    ret.op = "reset"
    => /\ boundary_count(lattice) = ret.val + 1
       /\ Len(lattice.ends) >= ret.val + 1
       /\ lattice.ends[1] = <<[total_cost |-> 0, right_id |-> 0,
                               prev_non_ws_right_id |-> 65535]>>
       /\ \A i \in 2..Len(lattice.ends) : lattice.ends[i] = <<>>
       /\ lattice.ends_full[1] = <<>>
       /\ lattice.indices[1] = <<>>
       /\ ~lattice.eos.some

\* C5 witness: a reset to a shorter sentence than an earlier one, the outer
\* array keeping the boundaries of the longer sentence.
C5_Witness ==
    /\ ret.op = "reset"
    /\ ret.val = 1
    /\ Len(lattice.ends) = 3

\* The cost of entering the EOS node from predecessor k of the final
\* boundary, written out from the policy and the stored fields.
EosCostVia(L, cm, k) ==
    LET v == L.ends[L.size][k]
        normal == v.total_cost + cm[v.right_id][0]
        bridged == v.total_cost + cm[v.prev_non_ws_right_id][0]
    IN  IF /\ L.global_whitespace_bridge
           /\ L.size >= 2
           /\ L.ends_full[L.size][k].is_whitespace
           /\ v.prev_non_ws_right_id # 65535
           /\ bridged < normal
        THEN bridged
        ELSE normal

ConnectedAtEnd(L) ==
    { k \in 1..Len(L.ends[L.size]) : L.ends[L.size][k].total_cost < I32Max }

\* C6: connect_eos fails iff no node ending at the final boundary is connected
\* to BOS; on failure eos is unset and fill_top_path appends nothing; on
\* success eos holds the chosen predecessor and the minimum cost; the node
\* arrays, size and the flag are the same after the call in both cases.
C6_ConnectEosOutcome ==
    [][ret'.op = "connect_eos"
       => /\ (ret'.val = 0) <=> (ConnectedAtEnd(lattice) = {})
          /\ ret'.val = 0
               => /\ ~lattice'.eos.some
                  /\ \A out \in PreVectors : fill_top_path(lattice', out).result = out
          /\ ret'.val = 1
               => /\ lattice'.eos.some
                  /\ lattice'.eos.idx.end = lattice.size - 1
                  /\ lattice'.eos.idx.index + 1 \in ConnectedAtEnd(lattice)
                  /\ lattice'.eos.cost =
                        EosCostVia(lattice, conn, lattice'.eos.idx.index + 1)
                  /\ \A k \in ConnectedAtEnd(lattice) :
                        lattice'.eos.cost <= EosCostVia(lattice, conn, k)
          /\ lattice'.ends = lattice.ends
          /\ lattice'.ends_full = lattice.ends_full
          /\ lattice'.indices = lattice.indices
          /\ lattice'.size = lattice.size
          /\ lattice'.global_whitespace_bridge = lattice.global_whitespace_bridge
      ]_vars

\* C6 witness: connect_eos failed although a node ends at the final boundary.
C6_Witness ==
    /\ ret.op = "connect_eos"
    /\ ret.val = 0
    /\ lattice.ends[lattice.size] # <<>>
    /\ ~lattice.eos.some

\* The part of the vector fill_top_path appended.
Appended == SubSeq(result, ret.val + 1, Len(result))

\* The cost of a BOS-to-EOS chain under the policy in force.
ChainCostUnderPolicy(L, chain, cm) ==
    IF L.global_whitespace_bridge
    THEN BridgedChainCost(Append(chain, EosOf(L.size - 1)), cm)
    ELSE PlainChainCost(Append(chain, EosOf(L.size - 1)), cm)

C8_EosAtNMinusOne ==
    (ret.op = "connect_eos" /\ ret.val = 1 /\ reset_length >= 1)
    => lattice.eos.idx.end = reset_length - 1

\* C8 amended: the EOS node has word_id EOS, begin = end = N (boundary_count - 1),
\* left_id = right_id = 0 and cost 0, so the predecessors connect_eos connects
\* to are the nodes stored at boundary N.
C8_EosAtN ==
    ret.op = "connect_eos"
    => /\ eos_node(lattice) =
            [begin |-> reset_length, end |-> reset_length, left_id |-> 0,
             right_id |-> 0, cost |-> 0, word_id |-> WordId_EOS,
             is_whitespace |-> FALSE]
       /\ (ret.val = 1) <=>
            (\E k \in 1..Len(lattice.ends[reset_length + 1]) :
                lattice.ends[reset_length + 1][k].total_cost < I32Max)
       /\ ret.val = 1 => lattice.eos.idx.end = reset_length

\* C8 witness: connect_eos succeeded on a sentence of two codepoints that also
\* has a connected node at boundary 1.
C8_Witness ==
    /\ ret.op = "connect_eos"
    /\ ret.val = 1
    /\ reset_length = 2
    /\ lattice.ends[2] # <<>>
    /\ lattice.ends[2][1].total_cost < I32Max
    /\ lattice.eos.idx.end = 2

(***************************************************************************)
(* Reading candidates: reference definitions.  Chains are enumerated over  *)
(* the lattice's node positions, so that two nodes are two chains.         *)
(***************************************************************************)
NodeRefs(L) ==
    { NodeRef(e, k - 1) : <<e, k>> \in
        { x \in (0..(boundary_count(L) - 1)) \X (1..MaxNodes) :
            x[2] <= Len(nodes_ending_at(L, x[1])) } }

NodeAt(L, node_ref) == L.ends_full[node_ref.end + 1][node_ref.index + 1]

\* Every contiguous chain of node positions from boundary b to boundary N.
RECURSIVE RefChainsFrom(_, _)
RefChainsFrom(L, b) ==
    IF boundary_count(L) = 0 THEN {}
    ELSE IF b = boundary_count(L) - 1 THEN {<<>>}
    ELSE UNION { { <<r>> \o c : c \in RefChainsFrom(L, NodeAt(L, r).end) } :
                    r \in { x \in NodeRefs(L) : NodeAt(L, x).begin = b } }

\* The match variants of a word: its normalized reading form and its
\* normalized surface, the empty ones left out.
VariantSet(surface, reading_form) ==
    {normalize_for_matching(reading_form), normalize_for_matching(surface)} \ {<<>>}

\* Some choice of one variant per element concatenates to bytes.
RECURSIVE Concatenates(_, _)
Concatenates(variant_sets, bytes) ==
    IF variant_sets = <<>> THEN bytes = <<>>
    ELSE \E v \in Head(variant_sets) :
            LET p == as_bytes(v)
            IN  /\ Len(p) <= Len(bytes)
                /\ SubSeq(bytes, 1, Len(p)) = p
                /\ Concatenates(Tail(variant_sets), SubSeq(bytes, Len(p) + 1, Len(bytes)))

\* The last enumerate_reading_candidates call returned Ok.
ReturnedOk == query.called /\ ret.val = 1

TargetBytes == as_bytes(normalize_for_matching(query.reading))

\* A node whose word info cannot be resolved has no match variant.
ChainVariants(L, text, chain) ==
    [k \in 1..Len(chain) |->
        LET word_info == make_word_info(NodeAt(L, chain[k]), text)
        IN  IF word_info.ok
                THEN VariantSet(word_info.val.surface, word_info.val.reading_form)
                ELSE {}]

TokenVariants(tokens) ==
    [k \in 1..Len(tokens) |-> VariantSet(tokens[k].surface, tokens[k].reading_form)]

MatchingChains == 
    { c \in RefChainsFrom(lattice, 0) :
        Concatenates(ChainVariants(lattice, input, c), TargetBytes) }

ValidChains ==
    { c \in MatchingChains : Len(c) >= max(query.min_tokens, 1) }

\* conn(previous.right_id, left_id) + node cost over the chain from BOS
\* right_id 0, plus conn(last.right_id, 0).
RECURSIVE RefChainCostFrom(_, _, _, _, _)
RefChainCostFrom(L, chain, k, prev_right_id, cm) ==
    IF k > Len(chain) THEN conn_cost(cm, prev_right_id, 0)
    ELSE conn_cost(cm, prev_right_id, NodeAt(L, chain[k]).left_id)
            + NodeAt(L, chain[k]).cost
            + RefChainCostFrom(L, chain, k + 1, NodeAt(L, chain[k]).right_id, cm)

RefChainCost(chain) == RefChainCostFrom(lattice, chain, 1, 0, conn)

\* The costs of a set of chains, in ascending order, one entry per chain.
RECURSIVE SortedChainCosts(_)
SortedChainCosts(S) ==
    IF S = {} THEN <<>>
    ELSE LET c == CHOOSE x \in S : \A y \in S : RefChainCost(x) <= RefChainCost(y)
         IN  <<RefChainCost(c)>> \o SortedChainCosts(S \ {c})

\* A sequence of integers in ascending order.
RECURSIVE SortedInts(_)
SortedInts(seq) ==
    IF seq = <<>> THEN <<>>
    ELSE LET i == CHOOSE x \in 1..Len(seq) : \A y \in 1..Len(seq) : seq[x] <= seq[y]
         IN  <<seq[i]>> \o SortedInts(SubSeq(seq, 1, i - 1) \o SubSeq(seq, i + 1, Len(seq)))

ReturnedCosts == [k \in 1..Len(candidates) |-> candidates[k].total_cost]

\* C9: every path returned by enumerate_reading_candidates has a choice of one
\* match variant per token (normalized reading form or normalized surface) that
\* concatenates to the normalized target byte for byte, and the result is empty
\* when no chain of lattice nodes from boundary 0 to N has such a choice.
C9_ReturnedPathsMatchTarget ==
    ReturnedOk =>
        /\ \A p \in 1..Len(candidates) :
                Concatenates(TokenVariants(candidates[p].tokens), TargetBytes)
        /\ MatchingChains = {} => candidates = <<>>

\* C9 witness: a search whose target is changed by normalization returned a
\* path of two tokens, and a token of it matched by a variant that is not the
\* normal form of its surface.
C9_Witness ==
    /\ ReturnedOk
    /\ normalize_for_matching(query.reading) # query.reading
    /\ \E p \in 1..Len(candidates) :
        /\ Len(candidates[p].tokens) >= 2
        /\ ~Concatenates(
                [k \in 1..Len(candidates[p].tokens) |->
                    {normalize_for_matching(candidates[p].tokens[k].surface)}],
                TargetBytes)

\* C10: the multiset of returned total_cost values is the K smallest costs
\* (all of them when fewer than K exist) of the valid paths, a valid path being
\* a contiguous chain of lattice nodes from boundary 0 to N with a variant
\* choice concatenating to the normalized target and at least max(M,1) tokens.
C10_ReturnsKLowestCostPaths ==
    ReturnedOk =>
        LET all == SortedChainCosts(ValidChains)
            K == query.max_results
        IN  SortedInts(ReturnedCosts) = SubSeq(all, 1, IF K <= Len(all) THEN K ELSE Len(all))

\* C11: the returned list is sorted by ascending total_cost and its length is
\* exactly min(K, number of valid paths), K = max_results, the valid paths being
\* the lattice paths that match the target with at least max(M,1) tokens.
C11_SortedAndLengthMinK ==
    ReturnedOk =>
        /\ \A p \in 1..(Len(candidates) - 1) :
                candidates[p].total_cost <= candidates[p + 1].total_cost
        /\ Len(candidates) =
                IF query.max_results <= Cardinality(ValidChains)
                    THEN query.max_results
                    ELSE Cardinality(ValidChains)

\* The node sequence of a returned path: word_id, begin and end per token.
NodeSequence(path) ==
    [k \in 1..Len(path.tokens) |->
        <<path.tokens[k].word_id, path.tokens[k].begin, path.tokens[k].end>>]

\* C12: the returned paths are pairwise distinct, no two of them are the same
\* sequence of lattice nodes (word_id, begin, end per token, in order), also
\* when a node has two match variants that both prefix-match the target.
C12_ReturnedPathsDistinct ==
    ReturnedOk =>
        \A p, q \in 1..Len(candidates) :
            p # q => NodeSequence(candidates[p]) # NodeSequence(candidates[q])

\* The token spans of a path tile [0, n): the path is non-empty, the first
\* token begins at 0, each token begins where the previous one ends, every
\* token has end > begin and the last token ends at n.
Tiles(tokens, n) ==
    /\ tokens # <<>>
    /\ tokens[1].begin = 0
    /\ \A k \in 1..(Len(tokens) - 1) : tokens[k + 1].begin = tokens[k].end
    /\ \A k \in 1..Len(tokens) : tokens[k].end > tokens[k].begin
    /\ tokens[Len(tokens)].end = n

RECURSIVE ConcatSurfaces(_)
ConcatSurfaces(tokens) ==
    IF tokens = <<>> THEN <<>> ELSE Head(tokens).surface \o ConcatSurfaces(Tail(tokens))

\* C13: for every returned path the token spans tile [0, N) without gaps or
\* overlaps and the concatenated token surfaces reconstruct the original input.
C13_SpansTileAndSurfacesReconstruct ==
    ReturnedOk =>
        \A p \in 1..Len(candidates) :
            /\ Tiles(candidates[p].tokens, boundary_count(lattice) - 1)
            /\ ConcatSurfaces(candidates[p].tokens) = original

\* The matching chains that have at least max(M,1) tokens are ValidChains;
\* a returned path is the chain c when it has c's nodes in c's order.
IsChain(path, c) ==
    NodeSequence(path) =
        [k \in 1..Len(c) |->
            <<NodeAt(lattice, c[k]).word_id, NodeAt(lattice, c[k]).begin,
              NodeAt(lattice, c[k]).end>>]

\* C14: no returned path has fewer than max(M,1) tokens, M = 0 behaves exactly
\* as M = 1, the result is empty when M exceeds the token count of every path
\* that matches the target, and a matching path of at least M tokens is never
\* hidden while fewer than K such paths exist.
C14_MinTokensFilter ==
    ReturnedOk =>
        /\ \A p \in 1..Len(candidates) :
                Len(candidates[p].tokens) >= max(query.min_tokens, 1)
        /\ query.min_tokens = 0 =>
                candidates = enumerate_reading_candidates(lattice, input, conn,
                                query.reading, query.max_results, 1).val
        /\ (\A c \in MatchingChains : Len(c) < query.min_tokens) => candidates = <<>>
        /\ Cardinality(ValidChains) < query.max_results =>
                \A c \in ValidChains :
                    \E p \in 1..Len(candidates) : IsChain(candidates[p], c)

(***************************************************************************)
(* C15: the enumerator's total cost and the cost the lattice stored.       *)
(***************************************************************************)

\* The node sequence of the lattice's top path, first token first.
TopPathSequence(L) ==
    LET nodes == Reverse(TopPathNodes(L))
    IN  [k \in 1..Len(nodes) |-> <<nodes[k].word_id, nodes[k].begin, nodes[k].end>>]

\* A returned path that is the node sequence of the lattice's top path.
IsTopPath(path) ==
    /\ lattice.eos.some
    /\ lattice.size >= 2
    /\ NodeSequence(path) = TopPathSequence(lattice)

\* C15: the total_cost of a returned path includes the BOS-to-first and
\* last-to-EOS transitions and is the path's total Viterbi cost: a returned
\* path that is the same node sequence as the lattice's top path has the cost
\* connect_eos stored, under either setting of global_whitespace_bridge.
C15_TotalCostIsStoredEosCost ==
    ReturnedOk =>
        \A p \in 1..Len(candidates) :
            IsTopPath(candidates[p]) => candidates[p].total_cost = lattice.eos.cost

\* C15 with the policy off: the returned top path has the stored cost.
C15_PlainTotalCostIsStoredEosCost ==
    (ReturnedOk /\ ~lattice.global_whitespace_bridge) =>
        \A p \in 1..Len(candidates) :
            IsTopPath(candidates[p]) => candidates[p].total_cost = lattice.eos.cost

(***************************************************************************)
(* C16: invalid arguments.                                                 *)
(***************************************************************************)

\* The call had an invalid argument: no result asked for, a target whose
\* normalized form is empty, or a lattice that was never reset.
InvalidArguments ==
    /\ query.called
    /\ \/ query.max_results = 0
       \/ normalize_for_matching(query.reading) = <<>>
       \/ boundary_count(lattice) = 0

\* C16: max_results = 0, a target whose normalized form is empty, or a
\* lattice with boundary_count() = 0 each give Ok with the empty list, and no
\* lexicon lookup is made before the return, whatever the lattice holds.
C16_InvalidArgumentsGiveEmptyOk ==
    InvalidArguments =>
        /\ ret = Ret("enumerate_reading_candidates", 1, FALSE)
        /\ candidates = <<>>
        /\ lookups = 0

\* C16 witness: max_results = 0 for a non-empty target on a lattice that holds
\* dictionary words and, first in the order of the lookups, a node whose
\* lookup fails.
C16_Witness ==
    /\ InvalidArguments
    /\ query.max_results = 0
    /\ normalize_for_matching(query.reading) # <<>>
    /\ Len(inserted) >= 2
    /\ inserted[1].word_id = UNKNOWN_WORD
    /\ ret.val = 1
    /\ lookups = 0

\* C16 witness: the empty target on a filled lattice.
C16_WitnessEmptyTarget ==
    /\ InvalidArguments
    /\ query.max_results > 0
    /\ query.reading = <<>>
    /\ Len(inserted) >= 2
    /\ lookups = 0

\* C16 witness: a lattice that was never reset.
C16_WitnessNeverReset ==
    /\ InvalidArguments
    /\ query.max_results > 0
    /\ query.reading # <<>>
    /\ boundary_count(lattice) = 0
    /\ candidates = <<>>

(***************************************************************************)
(* C17, C18: the word-id encoding of PyWordInfo.                           *)
(***************************************************************************)

\* C17: for a non-OOV raw id with dictionary field d and word field w,
\* lex_id = d, word_id_relative = w, word_id_packed is the raw id and the
\* legacy word_id is d * 100_000_000 + w when d > 0 and w when d = 0, and no
\* i32 operation overflows; for an OOV id lex_id, word_id and
\* word_id_relative are -1 and word_id_packed is the raw id.
C17_WordIdEncoding ==
    py_word_info # <<>> =>
        LET py == py_word_info[1]
            d == py_input.dic
            w == py_input.word
        IN  IF d # 15
            THEN /\ py.lex_id = d
                 /\ py.word_id_relative = w
                 /\ py.word_id_packed = py_input.raw
                 /\ w <= I32Max - d * 100000000
                 /\ py.word_id = (IF d > 0 THEN d * 100000000 + w ELSE w)
                 /\ ~py.overflow
            ELSE /\ py.lex_id = -1
                 /\ py.word_id = -1
                 /\ py.word_id_relative = -1
                 /\ py.word_id_packed = py_input.raw

\* C17 witness: the largest legacy id, lexicon 14 with the word field 2^28 - 1.
C17_Witness ==
    /\ py_word_info # <<>>
    /\ py_input.dic = 14
    /\ py_input.word = 268435455
    /\ py_word_info[1].word_id = 1668435455
    /\ py_word_info[1].word_id_packed < 0

\* C17 witness: an OOV id whose raw value is passed through.
C17_WitnessOov ==
    /\ py_word_info # <<>>
    /\ py_input.dic = 15
    /\ py_input.word = 1
    /\ py_word_info[1].word_id_packed = py_input.raw
    /\ py_word_info[1].lex_id = -1

\* The dictionary-form fields are lex_id, r and the legacy id of (lex_id, r).
DecodedAs(lex_id, r) ==
    /\ py_word_info[1].dictionary_form_lex_id = lex_id
    /\ py_word_info[1].dictionary_form_word_id_relative = r
    /\ py_word_info[1].dictionary_form_word_id = lex_id * 100000000 + r

\* C18: for every lex_id in 1..14 and relative id 0 <= r < 100_000_000,
\* decoding the native form lex_id << 28 | r and decoding the legacy form
\* lex_id * 100_000_000 + r both return lex_id and r, and the returned legacy
\* id is lex_id * 100_000_000 + r.
C18_DecodeAcceptsBothForms ==
    py_word_info # <<>> =>
        \A lex_id \in 1..14, r \in RelativeIds :
            (\/ py_input.dictionary_form_word_id = NativeForm(lex_id, r)
             \/ py_input.dictionary_form_word_id = LegacyForm(lex_id, r))
            => DecodedAs(lex_id, r)

\* The native half of C18.
C18_NativeFormDecoded ==
    py_word_info # <<>> =>
        \A lex_id \in 1..14, r \in RelativeIds :
            py_input.dictionary_form_word_id = NativeForm(lex_id, r)
            => DecodedAs(lex_id, r)

\* The legacy half of C18 below 2^28, where no native form lies.
C18_LegacyFormBelowNativeDecoded ==
    py_word_info # <<>> =>
        \A lex_id \in 1..14, r \in RelativeIds :
            (/\ py_input.dictionary_form_word_id = LegacyForm(lex_id, r)
             /\ LegacyForm(lex_id, r) < 2 ^ 28)
            => DecodedAs(lex_id, r)

(***************************************************************************)
(* C19: a reused lattice and a fresh one.                                  *)
(***************************************************************************)

\* A fresh lattice with the policy in force, reset to the length of the last
\* reset and handed the first k insert calls made since that reset.
FreshAfter(k) ==
    Replay(lattice.global_whitespace_bridge, reset_length, SubSeq(inserted, 1, k), conn)

\* The eos values a fresh lattice can hold after the calls since the reset:
\* unset, or stored by a connect_eos made after some of the insert calls.
FreshEosValues ==
    {NoEos} \cup { connect_eos(FreshAfter(k), conn).lat.eos : k \in 0..Len(inserted) }

\* C19: after reset(N) the lattice behaves as a fresh lattice does on the
\* same calls: the boundaries of the sentence hold what they hold in the fresh
\* lattice, the cost insert returns, the outcome and the cost of connect_eos
\* and the output of fill_top_path are those of the fresh lattice, and eos is
\* a value the calls since the reset produce; nothing depends on the nodes,
\* the traceback pointers or the eos of the analyses before the reset.
C19_ReusedLatticeLikeFresh ==
    reset_length >= 0 =>
        LET fresh == FreshAfter(Len(inserted))
        IN  /\ lattice.size = fresh.size
            /\ \A b \in 1..lattice.size :
                  /\ lattice.ends[b] = fresh.ends[b]
                  /\ lattice.ends_full[b] = fresh.ends_full[b]
                  /\ lattice.indices[b] = fresh.indices[b]
            /\ lattice.eos \in FreshEosValues
            /\ ret.op = "insert" =>
                  ret.val = insert(FreshAfter(Len(inserted) - 1),
                                   inserted[Len(inserted)], conn).cost
            /\ ret.op = "connect_eos" =>
                  /\ ret.val = (IF connect_eos(fresh, conn).ok THEN 1 ELSE 0)
                  /\ connect_eos(fresh, conn).ok =>
                         lattice.eos = connect_eos(fresh, conn).lat.eos
            /\ ret.op = "fill_top_path" =>
                  LET top == fill_top_path([fresh EXCEPT !.eos = lattice.eos],
                                           SubSeq(result, 1, ret.val))
                  IN  result = top.result /\ ret.panic = top.panic

\* C19 witness: the top path of a sentence analysed in a lattice that keeps
\* the boundaries of a longer sentence analysed before.
C19_Witness ==
    /\ reset_length = 1
    /\ Len(lattice.ends) = 3
    /\ inserted # <<>>
    /\ ret.op = "fill_top_path"
    /\ lattice.eos.some
    /\ Len(result) > ret.val

\* C19 witness: a longer sentence analysed after a shorter one, the outer
\* array grown by the reset.
C19_WitnessLonger ==
    /\ reset_length = 2
    /\ Len(lattice.ends) = 3
    /\ Len(inserted) >= 2
    /\ ret.op = "connect_eos"
    /\ ret.val = 1

(***************************************************************************)
(* C20: local optimality of the stored costs.                              *)
(***************************************************************************)

\* The predecessor VNodes of a node: the positions in ends[begin].
Predecessors(nd) == 1..Len(lattice.ends[nd.begin + 1])

\* Predecessor j of a node is a whitespace node (BOS is not).
PredecessorIsWhitespace(nd, j) ==
    IF nd.begin = 0 THEN FALSE ELSE lattice.ends_full[nd.begin + 1][j].is_whitespace

\* The sums predecessor j offers to a node: the normal transition and, when
\* the bridge is enabled, the predecessor is whitespace, the node is not and
\* the predecessor has a carrier, the transition from the carrier.
SumsVia(nd, j) ==
    LET P == lattice.ends[nd.begin + 1][j]
    IN  {P.total_cost + conn[P.right_id][nd.left_id] + nd.cost}
        \cup
        (IF /\ lattice.global_whitespace_bridge
            /\ PredecessorIsWhitespace(nd, j)
            /\ ~nd.is_whitespace
            /\ P.prev_non_ws_right_id # 65535
         THEN {P.total_cost + conn[P.prev_non_ws_right_id][nd.left_id] + nd.cost}
         ELSE {})

\* The inserted nodes with total_cost < i32::MAX, as (boundary, position).
ConnectedNodes ==
    { x \in (1..(lattice.size - 1)) \X (1..MaxNodes) :
        /\ x[2] <= Len(lattice.ends[x[1] + 1])
        /\ lattice.ends[x[1] + 1][x[2]].total_cost < 2147483647 }

\* C20: for every inserted node with total_cost < i32::MAX the traceback
\* entry points to a predecessor P in ends[begin] with P.total_cost < i32::MAX
\* and total_cost is P.total_cost + c + node.cost, c the normal or the bridged
\* connection cost; no connected predecessor, with either variant allowed to
\* it, gives a strictly smaller sum.
C20_StoredCostsLocallyOptimal ==
    \A x \in ConnectedNodes :
        LET nd == lattice.ends_full[x[1] + 1][x[2]]
            total_cost == lattice.ends[x[1] + 1][x[2]].total_cost
            prev == lattice.indices[x[1] + 1][x[2]]
        IN  /\ nd.end = x[1]
            /\ prev.end = nd.begin
            /\ prev.index + 1 \in Predecessors(nd)
            /\ lattice.ends[nd.begin + 1][prev.index + 1].total_cost < 2147483647
            /\ total_cost \in SumsVia(nd, prev.index + 1)
            /\ \A j \in Predecessors(nd) :
                  lattice.ends[nd.begin + 1][j].total_cost < 2147483647
                  => \A sum \in SumsVia(nd, j) : sum >= total_cost

\* C20 witness: a node behind a connected whitespace predecessor that has a
\* carrier, entered by the bridged transition, which is strictly cheaper than
\* the normal one.
C20_Witness ==
    \E x \in ConnectedNodes :
        LET nd == lattice.ends_full[x[1] + 1][x[2]]
            total_cost == lattice.ends[x[1] + 1][x[2]].total_cost
            prev == lattice.indices[x[1] + 1][x[2]]
        IN  /\ lattice.global_whitespace_bridge
            /\ nd.begin = 2
            /\ PredecessorIsWhitespace(nd, prev.index + 1)
            /\ Cardinality(SumsVia(nd, prev.index + 1)) = 2
            /\ \E sum \in SumsVia(nd, prev.index + 1) : sum > total_cost

\* C20 witness: a tie between two connected predecessors, the first one kept.
C20_WitnessTie ==
    \E x \in ConnectedNodes :
        LET nd == lattice.ends_full[x[1] + 1][x[2]]
            total_cost == lattice.ends[x[1] + 1][x[2]].total_cost
            prev == lattice.indices[x[1] + 1][x[2]]
        IN  /\ nd.begin >= 1
            /\ Len(lattice.ends[nd.begin + 1]) = 2
            /\ prev.index = 0
            /\ total_cost \in SumsVia(nd, 2)

(***************************************************************************)
(* C21: the carrier.                                                       *)
(***************************************************************************)

\* The right_id of the first non-whitespace node on the traceback from the
\* node at position k of boundary end down to BOS, the node itself included;
\* 0xFFFF when every node on the traceback is whitespace.
RECURSIVE FirstNonWhitespaceRightId(_, _)
FirstNonWhitespaceRightId(end, k) ==
    IF end = 0 THEN 65535
    ELSE LET nd == lattice.ends_full[end + 1][k]
             prev == lattice.indices[end + 1][k]
         IN  IF ~nd.is_whitespace THEN nd.right_id
             ELSE FirstNonWhitespaceRightId(prev.end, prev.index + 1)

\* Every node on the traceback from (end, k) down to BOS is whitespace.
RECURSIVE AllWhitespaceToBos(_, _)
AllWhitespaceToBos(end, k) ==
    IF end = 0 THEN TRUE
    ELSE LET nd == lattice.ends_full[end + 1][k]
             prev == lattice.indices[end + 1][k]
         IN  nd.is_whitespace /\ AllWhitespaceToBos(prev.end, prev.index + 1)

\* C21: for every inserted node connected to BOS, under either policy, the
\* stored prev_non_ws_right_id is the right_id of the first non-whitespace
\* node on the traceback from the node (included) to BOS, and it is 0xFFFF
\* exactly when every node on that traceback is whitespace.
C21_CarrierIsLastNonWhitespaceRightId ==
    \A x \in ConnectedNodes :
        LET carrier == lattice.ends[x[1] + 1][x[2]].prev_non_ws_right_id
        IN  /\ carrier = FirstNonWhitespaceRightId(x[1], x[2])
            /\ carrier = 65535 <=> AllWhitespaceToBos(x[1], x[2])

\* C21 witness: under the bridge, a whitespace node behind a whitespace node
\* behind a word carries the right_id of the word.
C21_Witness ==
    \E x \in ConnectedNodes :
        LET nd == lattice.ends_full[x[1] + 1][x[2]]
            prev == lattice.indices[x[1] + 1][x[2]]
        IN  /\ lattice.global_whitespace_bridge
            /\ nd.is_whitespace
            /\ nd.begin = 2
            /\ lattice.ends_full[3][prev.index + 1].is_whitespace
            /\ lattice.ends[x[1] + 1][x[2]].prev_non_ws_right_id = 2

\* C21 witness: a whitespace node at the head of the sentence has no carrier.
C21_WitnessNoCarrier ==
    \E x \in ConnectedNodes :
        /\ lattice.ends_full[x[1] + 1][x[2]].is_whitespace
        /\ lattice.ends[x[1] + 1][x[2]].prev_non_ws_right_id = 65535

\* C21 witness: a word entered over the bridge carries its own right_id.
C21_WitnessBridged ==
    \E x \in ConnectedNodes :
        LET nd == lattice.ends_full[x[1] + 1][x[2]]
            prev == lattice.indices[x[1] + 1][x[2]]
        IN  /\ lattice.global_whitespace_bridge
            /\ nd.begin = 2
            /\ ~nd.is_whitespace
            /\ PredecessorIsWhitespace(nd, prev.index + 1)
            /\ \E sum \in SumsVia(nd, prev.index + 1) :
                   sum > lattice.ends[x[1] + 1][x[2]].total_cost
            /\ lattice.ends[x[1] + 1][x[2]].prev_non_ws_right_id = nd.right_id

(***************************************************************************)
(* C22: tie-breaking.                                                      *)
(***************************************************************************)

\* The connected predecessors of a node.
ConnectedPredecessors(nd) ==
    { j \in Predecessors(nd) : lattice.ends[nd.begin + 1][j].total_cost < 2147483647 }

\* The best cost predecessor j offers: the minimum of normal and bridged.
BestVia(nd, j) == MinOf(SumsVia(nd, j))

\* C22: the predecessor recorded for a connected node is the one of lowest
\* index in ends[begin] among the connected predecessors whose best cost (the
\* minimum of normal and bridged) is the overall minimum: a later predecessor
\* replaces an earlier one only with a strictly smaller cost.  The same holds
\* for the predecessor connect_eos records for EOS.
C22_EarliestCheapestPredecessor ==
    /\ \A x \in ConnectedNodes :
        LET nd == lattice.ends_full[x[1] + 1][x[2]]
            prev == lattice.indices[x[1] + 1][x[2]]
            overall == MinOf({ BestVia(nd, j) : j \in ConnectedPredecessors(nd) })
        IN  /\ ConnectedPredecessors(nd) # {}
            /\ prev.end = nd.begin
            /\ prev.index + 1 =
                   MinOf({ j \in ConnectedPredecessors(nd) : BestVia(nd, j) = overall })
    /\ (ret.op = "connect_eos" /\ ret.val = 1) =>
        LET overall == MinOf({ EosCostVia(lattice, conn, k) : k \in ConnectedAtEnd(lattice) })
        IN  /\ lattice.eos.idx.end = lattice.size - 1
            /\ lattice.eos.idx.index + 1 =
                   MinOf({ k \in ConnectedAtEnd(lattice) :
                             EosCostVia(lattice, conn, k) = overall })

\* C22 witness: two different connected predecessors tied at the minimum:
\* the first is recorded.
C22_Witness ==
    \E x \in ConnectedNodes :
        LET nd == lattice.ends_full[x[1] + 1][x[2]]
            prev == lattice.indices[x[1] + 1][x[2]]
        IN  /\ ConnectedPredecessors(nd) = {1, 2}
            /\ BestVia(nd, 1) = BestVia(nd, 2)
            /\ lattice.ends_full[nd.begin + 1][1] # lattice.ends_full[nd.begin + 1][2]
            /\ prev.index = 0

\* C22 witness: the later predecessor is strictly cheaper and is recorded.
C22_WitnessLaterCheaper ==
    \E x \in ConnectedNodes :
        LET nd == lattice.ends_full[x[1] + 1][x[2]]
            prev == lattice.indices[x[1] + 1][x[2]]
        IN  /\ ConnectedPredecessors(nd) = {1, 2}
            /\ BestVia(nd, 2) < BestVia(nd, 1)
            /\ prev.index = 1

\* C22 witness: two connected nodes at the final boundary tied as
\* predecessors of EOS, the first recorded.
C22_WitnessEos ==
    /\ ret.op = "connect_eos"
    /\ ret.val = 1
    /\ ConnectedAtEnd(lattice) = {1, 2}
    /\ lattice.ends_full[lattice.size][1] # lattice.ends_full[lattice.size][2]
    /\ EosCostVia(lattice, conn, 1) = EosCostVia(lattice, conn, 2)
    /\ lattice.eos.idx.index = 0

(***************************************************************************)
(* C23: unreachable nodes.                                                 *)
(***************************************************************************)

\* The stored nodes of the sentence, as (boundary, position).
StoredNodes ==
    { x \in (1..(lattice.size - 1)) \X (1..MaxNodes) : x[2] <= Len(lattice.ends[x[1] + 1]) }

\* The nodes with total_cost = i32::MAX.
UnreachableNodes == StoredNodes \ ConnectedNodes

\* C23: every node handed to insert is stored; a stored node has total_cost
\* = i32::MAX exactly when none of its predecessors is connected (the begin
\* boundary may be empty); a node with total_cost = i32::MAX is the recorded
\* predecessor of no connected node and not of EOS, and fill_top_path does not
\* append it.
C23_UnreachableNodesAreInert ==
    reset_length >= 0 =>
        /\ \A b \in 1..(lattice.size - 1) :
              Len(lattice.ends[b + 1]) =
                  Cardinality({ i \in 1..Len(inserted) : inserted[i].end = b })
        /\ \A x \in StoredNodes :
              (x \in UnreachableNodes)
              <=> (ConnectedPredecessors(lattice.ends_full[x[1] + 1][x[2]]) = {})
        /\ \A x \in UnreachableNodes :
              /\ lattice.ends[x[1] + 1][x[2]].total_cost = 2147483647
              /\ lattice.indices[x[1] + 1][x[2]] = [end |-> 65535, index |-> 65535]
        /\ \A x \in ConnectedNodes, u \in UnreachableNodes :
              lattice.indices[x[1] + 1][x[2]] # [end |-> u[1], index |-> u[2] - 1]
        /\ \A u \in UnreachableNodes :
              lattice.eos.some => lattice.eos.idx # [end |-> u[1], index |-> u[2] - 1]
        /\ ret.op = "fill_top_path" =>
              \A i \in 1..Len(Appended), u \in UnreachableNodes :
                  Appended[i] # [end |-> u[1], index |-> u[2] - 1]

\* C23 witness: the first node of the final boundary is unreachable, behind
\* an empty boundary; EOS is connected through the second node and the top
\* path is the second node.
C23_Witness ==
    /\ ret.op = "fill_top_path"
    /\ lattice.size = 3
    /\ <<2, 1>> \in UnreachableNodes
    /\ lattice.ends[2] = <<>>
    /\ <<2, 2>> \in ConnectedNodes
    /\ lattice.eos.some
    /\ Appended = <<[end |-> 2, index |-> 1]>>

\* C23 witness: a node behind an unreachable and a connected predecessor is
\* connected through the second.
C23_WitnessSkipped ==
    \E x \in ConnectedNodes :
        LET nd == lattice.ends_full[x[1] + 1][x[2]]
        IN  /\ nd.begin >= 1
            /\ <<nd.begin, 1>> \in UnreachableNodes
            /\ ConnectedPredecessors(nd) = {2}
            /\ lattice.indices[x[1] + 1][x[2]] = [end |-> nd.begin, index |-> 1]

(***************************************************************************)
(* C24: the traceback of fill_top_path.                                    *)
(***************************************************************************)

\* fill_top_path returned, having read only existing entries of indices; the
\* boundaries of the appended NodeIdx strictly decrease and none of them is
\* boundary 0, where BOS is.
TracebackStopsAtBos ==
    /\ ~ret.panic
    /\ \A i \in 1..Len(Appended) : Appended[i].end # 0
    /\ \A i \in 1..(Len(Appended) - 1) : Appended[i + 1].end < Appended[i].end

\* C24: for every sentence length N >= 0, the empty sentence included, and
\* every lattice on which connect_eos succeeded, fill_top_path terminates,
\* reads only existing entries of indices, visits boundaries of strictly
\* decreasing end and appends no NodeIdx whose end is 0.
C24_TracebackStopsAtBos ==
    (ret.op = "fill_top_path" /\ lattice.eos.some) => TracebackStopsAtBos

\* C24 for the sentences of at least one codepoint.
C24_TracebackStopsAtBosNonEmpty ==
    (ret.op = "fill_top_path" /\ lattice.eos.some /\ lattice.size >= 2)
    => TracebackStopsAtBos

\* On the empty sentence fill_top_path appends the NodeIdx of BOS and reads
\* indices[0][0], which does not exist.
C24_EmptySentencePanics ==
    (ret.op = "fill_top_path" /\ lattice.eos.some /\ lattice.size = 1)
    => /\ ret.panic
       /\ Appended = <<[end |-> 0, index |-> 0]>>
       /\ lattice.indices[1] = <<>>

(***************************************************************************)
(* C25: the frame of insert.                                               *)
(***************************************************************************)

\* seq with one element more at its tail.
GrownByOne(old, new) ==
    /\ Len(new) = Len(old) + 1
    /\ SubSeq(new, 1, Len(old)) = old

\* C25: insert(node) appends exactly one entry at the tail of each of
\* ends[node.end], ends_full[node.end] and indices[node.end], the new VNode
\* carrying the node's right_id and the returned cost, and leaves every other
\* entry of the arrays, eos, size and the policy as they were; the three
\* arrays have the same length at every boundary except 0 and a VNode has the
\* right_id of its node.  The call does not fail, whatever the order of the
\* calls.
C25_InsertAppendsOneEntry ==
    [][ret'.op = "insert"
       => LET nd == inserted'[Len(inserted')]
              e == nd.end + 1
          IN  /\ ~ret'.panic
              /\ GrownByOne(lattice.ends[e], lattice'.ends[e])
              /\ GrownByOne(lattice.ends_full[e], lattice'.ends_full[e])
              /\ GrownByOne(lattice.indices[e], lattice'.indices[e])
              /\ lattice'.ends_full[e][Len(lattice'.ends_full[e])] = nd
              /\ lattice'.ends[e][Len(lattice'.ends[e])].total_cost = ret'.val
              /\ Len(lattice'.ends) = Len(lattice.ends)
              /\ Len(lattice'.ends_full) = Len(lattice.ends_full)
              /\ Len(lattice'.indices) = Len(lattice.indices)
              /\ \A b \in (1..Len(lattice.ends)) \ {e} :
                    /\ lattice'.ends[b] = lattice.ends[b]
                    /\ lattice'.ends_full[b] = lattice.ends_full[b]
                    /\ lattice'.indices[b] = lattice.indices[b]
              /\ lattice'.eos = lattice.eos
              /\ lattice'.size = lattice.size
              /\ lattice'.global_whitespace_bridge = lattice.global_whitespace_bridge
              /\ \A b \in 2..Len(lattice'.ends) :
                    /\ Len(lattice'.ends[b]) = Len(lattice'.ends_full[b])
                    /\ Len(lattice'.ends[b]) = Len(lattice'.indices[b])
                    /\ \A k \in 1..Len(lattice'.ends[b]) :
                          lattice'.ends[b][k].right_id = lattice'.ends_full[b][k].right_id
      ]_vars

\* C25 witness: a node has been inserted before its begin boundary was
\* populated; the boundary has a connected node now, the node keeps
\* total_cost = i32::MAX, and an eos stored before the last insert is kept.
C25_Witness ==
    /\ ret.op = "insert"
    /\ lattice.eos.some
    /\ \E u \in UnreachableNodes :
          /\ ConnectedPredecessors(lattice.ends_full[u[1] + 1][u[2]]) # {}
          /\ inserted[Len(inserted)].end = lattice.ends_full[u[1] + 1][u[2]].begin

\* No call reports the ordering violation: a stored i32::MAX is kept by every
\* later call on the sentence.
C25_StaleCostIsKept ==
    [][(ret'.op # "reset" /\ ret'.op # "default")
       => \A u \in UnreachableNodes :
             /\ lattice'.ends[u[1] + 1][u[2]].total_cost = 2147483647
             /\ (ret'.op = "insert" \/ ret'.op = "connect_eos") => ~ret'.panic
      ]_vars

\* ---------------------------------------------------------------------------
\* The memoized lower bound of the reading-candidate search.

\* The searcher the last enumerate_reading_candidates call ran.
searcher_of_query ==
    Searcher_new(conn, normalize_for_matching(query.reading),
                 boundary_count(lattice) - 1, query.max_results,
                 max(query.min_tokens, 1),
                 nodes_by_begin_of(lattice), metas_by_end_of(lattice, input))

\* The last call passed the early returns and built every node's metadata.
SearchRan == ReturnedOk /\ ~InvalidArguments

\* Every search state of the last call: a boundary up to N, a right id and an
\* offset into the target bytes.
SearchStates ==
    { SearchState(b, p, o) :
        <<b, p, o>> \in (0..(boundary_count(lattice) - 1)) \X Ids
                            \X (0..Len(TargetBytes)) }

\* The variants of the node at node_ref that the target continues with at
\* offset.
ContinuingVariants(node_ref, offset) ==
    LET word_info == make_word_info(NodeAt(lattice, node_ref), input)
        variants == IF word_info.ok
                        THEN VariantSet(word_info.val.surface,
                                        word_info.val.reading_form)
                        ELSE {}
    IN  { v \in variants :
            /\ offset + Len(as_bytes(v)) <= Len(TargetBytes)
            /\ SubSeq(TargetBytes, offset + 1, offset + Len(as_bytes(v)))
                    = as_bytes(v) }

\* The cost of every continuation from state that ends at boundary N with the
\* whole target consumed: conn(prev_right_id, left_id) + node cost per step,
\* plus the final conn(prev_right_id, 0).
RECURSIVE ContinuationCosts(_)
ContinuationCosts(state) ==
    IF state.boundary = boundary_count(lattice) - 1
        THEN IF state.reading_offset = Len(TargetBytes)
                THEN {conn_cost(conn, state.prev_right_id, 0)}
                ELSE {}
        ELSE UNION {
                UNION {
                    { conn_cost(conn, state.prev_right_id, NodeAt(lattice, r).left_id)
                        + NodeAt(lattice, r).cost + c :
                      c \in ContinuationCosts(
                              SearchState(NodeAt(lattice, r).end,
                                          NodeAt(lattice, r).right_id,
                                          state.reading_offset + Len(as_bytes(v)))) } :
                    v \in ContinuingVariants(r, state.reading_offset) } :
                r \in { x \in NodeRefs(lattice) :
                            NodeAt(lattice, x).begin = state.boundary } }

\* The true minimum of a state: None when it has no continuation.
TrueMinimum(state) ==
    IF ContinuationCosts(state) = {} THEN None
    ELSE Some(MinOf(ContinuationCosts(state)))

\* The cache the search leaves behind when it starts, as dfs does, from the
\* state at BOS.
CacheAfterSearch ==
    min_additional_cost_from_state(searcher_of_query.C, searcher_of_query.S,
                                   SearchState(0, 0, 0)).S

\* C26: for every search state s = (boundary, prev_right_id, reading_offset),
\* min_additional_cost_from_state(s) returns the true minimum over the
\* continuations from s that end at boundary N with the whole target consumed,
\* and None exactly when there is none; every value it caches on the way is
\* the true minimum of its state; the value is the same with an empty cache
\* and with the cache the search from BOS has filled; and every transition
\* strictly increases the boundary.
C26_MemoizedBoundIsExact ==
    SearchRan =>
        LET C == searcher_of_query.C
            empty == searcher_of_query.S
            filled == CacheAfterSearch
        IN  /\ \A s \in SearchStates :
                    LET fresh == min_additional_cost_from_state(C, empty, s).val
                    IN  /\ fresh = TrueMinimum(s)
                        /\ min_additional_cost_from_state(C, filled, s).val = fresh
            /\ \A t \in DOMAIN filled.min_cost_cache :
                    filled.min_cost_cache[t] = TrueMinimum(t)
            /\ \A s \in SearchStates :
                    s.boundary < C.end_boundary =>
                        LET steps == admissible_steps(C, s, 1, 1)
                        IN  \A i \in 1..Len(steps) :
                                steps[i].next_state.boundary > s.boundary

\* The search ran and the state at BOS has two continuations of different
\* cost, the dearer one found first.
C26_Witness ==
    /\ SearchRan
    /\ Cardinality(ContinuationCosts(SearchState(0, 0, 0))) >= 2
    /\ LET C == searcher_of_query.C
           steps == admissible_steps(C, SearchState(0, 0, 0), 1, 1)
       IN  \E i, j \in 1..Len(steps) :
                /\ i < j
                /\ TrueMinimum(steps[i].next_state).some
                /\ TrueMinimum(steps[j].next_state).some
                /\ steps[i].step_cost + TrueMinimum(steps[i].next_state).val
                    > steps[j].step_cost + TrueMinimum(steps[j].next_state).val

\* The search ran and the state at BOS has no continuation although a node
\* begins there.
C26_WitnessNone ==
    /\ SearchRan
    /\ ~TrueMinimum(SearchState(0, 0, 0)).some
    /\ admissible_steps(searcher_of_query.C, SearchState(0, 0, 0), 1, 1) # <<>>

\* The search ran and a state the search from BOS never cached has a
\* continuation.
C26_WitnessUncached ==
    /\ SearchRan
    /\ \E s \in SearchStates :
            /\ s \notin DOMAIN CacheAfterSearch.min_cost_cache
            /\ s.boundary < boundary_count(lattice) - 1
            /\ TrueMinimum(s).some

====
